---- MODULE Spec2Model ----
(***************************************************************************)
(* Model of the KYC verification orchestration engine of educational-kyc.  *)
(*                                                                         *)
(* Scores are integer hundredths (0.25 is 25).  A result carries its score *)
(* as the exact fraction risk_num / risk_den (in hundredths), so that the  *)
(* averages and weighted means of the aggregators are not rounded.         *)
(* Adapter results have risk_den = 1.                                      *)
(*                                                                         *)
(* Three specifications share the module:                                  *)
(*   SpecAgg  the three risk aggregators as functions of an input list     *)
(*   SpecCH   the company-registry lookups (retry loop, follow-up          *)
(*            requests, risk analysis)                                     *)
(*   Spec     one orchestrator run (UK / combined / real / real+JCQ)       *)
(***************************************************************************)
EXTENDS Integers, Sequences, FiniteSets, TLC

VARIABLES aggIn, aggType, aggOut,
          ch,
          pc, orch, request, results, trace,
          match,
          providers_db, REVOKED_IDS, vc,
          scheduled,
          companies_house_full_data, kyc_record,
          environ, data_sources,
          processing_queue

aggVars   == <<aggIn, aggType, aggOut>>
chVars    == <<ch>>
runVars   == <<pc, orch, request, results, trace>>
matchVars == <<match>>
vcVars    == <<providers_db, REVOKED_IDS, vc>>
gatherVars == <<scheduled>>
webVars   == <<companies_house_full_data, kyc_record>>
bindVars  == <<environ, data_sources>>
queueVars == <<processing_queue>>
vars      == <<aggIn, aggType, aggOut, ch, pc, orch, request, results, trace,
               match, providers_db, REVOKED_IDS, vc,
               scheduled,
               companies_house_full_data, kyc_record,
               environ, data_sources,
               processing_queue>>

\* A value that is absent (Python None / a missing dict key).
NoValue == "None"

(***************************************************************************)
(* Bounds                                                                  *)
(***************************************************************************)
\* Longest input list handed to an aggregator in SpecAgg.
MaxResults == 5
\* Longest list of well-formed qualification titles in a request.
MaxQuals == 2
MaxProviders == 2
MaxDeviations == 2

(***************************************************************************)
(* Check results                                                           *)
(***************************************************************************)
\* EducationalVerificationResult / VerificationResult built by an adapter.
Result(ct, st, rs) ==
    [check_type |-> ct, status |-> st, risk_num |-> rs, risk_den |-> 1]

\* The recommendations list of a result, where a property reads it.
WithRecommendations(r, recs) == r @@ [recommendations |-> recs]

\* _create_error_result of the UK orchestrator.
_create_error_result(ct) ==
    WithRecommendations(Result(ct, "error", 70),
                        <<"Manual verification required due to system error">>)

\* The five-way status vocabulary of VerificationStatus.
VerificationStatus == {"passed", "failed", "flagged", "error", "not_applicable"}

\* Statuses that count as an approval.
ApprovalStatuses == {"approved", "approved_with_monitoring", "passed"}

RECURSIVE SumScores(_)
SumScores(s) == IF s = <<>> THEN 0 ELSE Head(s).risk_num + SumScores(Tail(s))

RECURSIVE SelectTypes(_, _)
\* The check_type of every element of s whose status is in sts, in order.
SelectTypes(s, sts) ==
    IF s = <<>> THEN <<>>
    ELSE (IF Head(s).status \in sts THEN <<Head(s).check_type>> ELSE <<>>)
         \o SelectTypes(Tail(s), sts)

(***************************************************************************)
(* Provider types                                                          *)
(***************************************************************************)
\* Provider type strings as submitted to onboarding (or absent).
FormTypes == {"FE College", "Private Training", "Training Provider", NoValue}

\* map_provider_type: form string to ProviderType, unknown -> TRAINING_PROVIDER.
map_provider_type(t) ==
    CASE t = "FE College"       -> "fe_college"
      [] t = "Private Training" -> "private_training"
      [] OTHER                  -> "training_provider"

\* 'college' in t.lower() or 'university' in t.lower()
IsEstablishedType(t) == t = "FE College"
\* 'private' in t.lower()
IsPrivateType(t) == t = "Private Training"

(***************************************************************************)
(* assess_educational_risk (UK orchestrator): unweighted mean              *)
(***************************************************************************)
\* The threshold ladder of assess_educational_risk; critical_issues is
\* collected by the caller but plays no part in the ladder.
EduStatus(num, den, critical) ==
    IF num < 25 * den THEN "approved"
    ELSE IF num < 50 * den THEN "approved_with_monitoring"
    ELSE IF num < 75 * den THEN "enhanced_due_diligence_required"
    ELSE "rejected"

EduRiskLevel(num, den) ==
    IF num < 25 * den THEN "low"
    ELSE IF num < 50 * den THEN "medium"
    ELSE IF num < 75 * den THEN "high"
    ELSE "critical"

\* Empty-input mutant: the default is taken as 0.4.
EduAverageLowDefault(vr) ==
    IF vr = <<>> THEN [num |-> 40, den |-> 1]
    ELSE [num |-> SumScores(vr), den |-> Len(vr)]

\* total_risk_score / len(verification_results) if verification_results else 0.5
EduAverage(vr) ==
    IF vr = <<>> THEN [num |-> 50, den |-> 1]
    ELSE [num |-> SumScores(vr), den |-> Len(vr)]

assess_educational_risk(vr, provider_type) ==
    LET avg      == EduAverage(vr)
        adj      == IF provider_type = "private_training" THEN 10 * avg.den ELSE 0
        num      == avg.num + adj
        critical == SelectTypes(vr, {"failed"})
        factors  == SelectTypes(vr, {"flagged"})
    IN  [check_type      |-> "educational_risk_assessment",
         status          |-> EduStatus(num, avg.den, critical),
         risk_num        |-> num,
         risk_den        |-> avg.den,
         risk_level      |-> EduRiskLevel(num, avg.den),
         risk_factors    |-> factors,
         critical_issues |-> critical,
         total_checks    |-> Len(vr)]

(***************************************************************************)
(* _calculate_overall_risk (real orchestrator): weighted mean              *)
(***************************************************************************)
\* The weights table of _calculate_overall_risk ("real") and of
\* _recalculate_risk_with_jcq ("jcq"), in hundredths; weights["default"] last.
Weight(table, ct) ==
    IF table = "real"
    THEN CASE ct = "companies_house_verification" -> 25
           [] ct = "ukprn_validation"             -> 20
           [] ct = "sanctions_screening"          -> 30
           [] ct = "ofqual_recognition"           -> 15
           [] OTHER                               -> 10
    ELSE CASE ct = "companies_house_verification" -> 20
           [] ct = "ukprn_validation"             -> 15
           [] ct = "sanctions_screening"          -> 25
           [] ct = "ofqual_recognition"           -> 15
           [] ct = "jcq_centre_verification"      -> 20
           [] OTHER                               -> 5

RECURSIVE WeightedRisk(_, _)
WeightedRisk(s, table) ==
    IF s = <<>> THEN 0
    ELSE Head(s).risk_num * Weight(table, Head(s).check_type)
         + WeightedRisk(Tail(s), table)

RECURSIVE TotalWeight(_, _)
TotalWeight(s, table) ==
    IF s = <<>> THEN 0
    ELSE Weight(table, Head(s).check_type) + TotalWeight(Tail(s), table)

\* Precedence mutant: the status is read off the score alone.
WeightedStatusScoreOnly(num, den, failed, flagged) ==
    IF num > 70 * den THEN "failed"
    ELSE IF num > 40 * den THEN "flagged"
    ELSE "passed"

\* failed_checks or score > 0.7 -> FAILED; flagged_checks or score > 0.4 ->
\* FLAGGED; otherwise PASSED.
WeightedStatus(num, den, failed, flagged) ==
    IF failed # <<>> \/ num > 70 * den THEN "failed"
    ELSE IF flagged # <<>> \/ num > 40 * den THEN "flagged"
    ELSE "passed"

\* provider_data.get('provider_type', '').lower() fails on a None value; the
\* empty-list return comes before it.
_calculate_overall_risk_raises(rs, provider_type) ==
    rs # <<>> /\ provider_type = NoValue

\* Empty-input result of _calculate_overall_risk.
RealEmptyResult ==
    [check_type |-> "risk_assessment", status |-> "error",
     risk_num |-> 80, risk_den |-> 1, confidence |-> 0]

_calculate_overall_risk(rs, provider_type) ==
    IF rs = <<>> THEN RealEmptyResult
    ELSE
    LET weighted == WeightedRisk(rs, "real")
        total    == TotalWeight(rs, "real")
        num      == IF IsEstablishedType(provider_type) THEN weighted * 9
                    ELSE IF IsPrivateType(provider_type) THEN weighted * 11
                    ELSE weighted
        den      == IF IsEstablishedType(provider_type) \/ IsPrivateType(provider_type)
                    THEN total * 10 ELSE total
        failed   == SelectTypes(rs, {"failed"})
        flagged  == SelectTypes(rs, {"flagged"})
        passed   == SelectTypes(rs, {"passed"})
        over     == num > 100 * den
    IN  [check_type |-> "risk_assessment",
         status     |-> WeightedStatus(num, den, failed, flagged),
         risk_num   |-> IF over THEN 100 ELSE num,
         risk_den   |-> IF over THEN 1 ELSE den,
         confidence |-> 90,
         final_num  |-> num, final_den |-> den,
         total_checks   |-> Len(rs),
         passed_checks  |-> Len(passed),
         flagged_checks |-> Len(flagged),
         failed_checks  |-> Len(failed),
         risk_factors   |-> flagged \o failed]

(***************************************************************************)
(* _recalculate_risk_with_jcq (JCQ-extended orchestrator)                  *)
(***************************************************************************)
\* next(r for r in results if r.check_type == "jcq_centre_verification")
JcqPassed(rs) ==
    /\ \E i \in 1..Len(rs) : rs[i].check_type = "jcq_centre_verification"
    /\ LET i == CHOOSE j \in 1..Len(rs) :
                   /\ rs[j].check_type = "jcq_centre_verification"
                   /\ \A k \in 1..(j-1) : rs[k].check_type # "jcq_centre_verification"
       IN  rs[i].status = "passed"

_recalculate_risk_with_jcq(rs) ==
    LET weighted == WeightedRisk(rs, "jcq")
        total    == TotalWeight(rs, "jcq")
        baseNum  == IF total > 0 THEN weighted ELSE 50
        baseDen  == IF total > 0 THEN total ELSE 1
        bonus    == JcqPassed(rs)
        num      == IF bonus THEN baseNum * 8 ELSE baseNum
        den      == IF bonus THEN baseDen * 10 ELSE baseDen
        failed   == SelectTypes(rs, {"failed"})
        flagged  == SelectTypes(rs, {"flagged"})
        passed   == SelectTypes(rs, {"passed"})
        over     == num > 100 * den
    IN  [check_type |-> "enhanced_risk_assessment",
         status     |-> WeightedStatus(num, den, failed, flagged),
         risk_num   |-> IF over THEN 100 ELSE num,
         risk_den   |-> IF over THEN 1 ELSE den,
         confidence |-> 95,
         final_num  |-> num, final_den |-> den,
         total_checks   |-> Len(rs),
         passed_checks  |-> Len(passed),
         flagged_checks |-> Len(flagged),
         failed_checks  |-> Len(failed),
         includes_jcq_verification |->
             \E i \in 1..Len(rs) : rs[i].check_type = "jcq_centre_verification"]

(***************************************************************************)
(* SpecAgg: the aggregators applied to bounded input lists                 *)
(***************************************************************************)
\* No aggregator has been applied yet.
NoOutput == [by |-> "none"]

\* Results that adapters produce, used to build aggregator inputs:
\* validate_ukprn passed 0.1 and failed 0.8, check_ofqual_recognition
\* flagged 0.4, SanctionsAPI.check_sanctions flagged 0.95, and the error result
\* 0.5 of OfqualAPI.verify_awarding_organisation.
AggAlphabet ==
    { Result("ukprn_validation", "passed", 10),
      Result("ofqual_recognition", "error", 50),
      Result("ofqual_recognition", "flagged", 40),
      Result("ukprn_validation", "failed", 80),
      Result("sanctions_screening", "flagged", 95) }

AggIdle == aggIn = <<>> /\ aggType = NoValue /\ aggOut = NoOutput

AggInit ==
    /\ aggIn = <<>>
    /\ aggType \in FormTypes
    /\ aggOut = NoOutput

\* The caller accumulates one more adapter result.
AggAppend ==
    /\ aggOut = NoOutput
    /\ Len(aggIn) < MaxResults
    /\ \E r \in AggAlphabet : aggIn' = Append(aggIn, r)
    /\ UNCHANGED <<aggType, aggOut, runVars, chVars, matchVars, vcVars, gatherVars, webVars, bindVars, queueVars>>

CallAssessEducationalRisk ==
    /\ aggOut = NoOutput
    /\ aggOut' = [by |-> "assess_educational_risk",
                  result |-> assess_educational_risk(aggIn, map_provider_type(aggType))]
    /\ UNCHANGED <<aggIn, aggType, runVars, chVars, matchVars, vcVars, gatherVars, webVars, bindVars, queueVars>>

CallCalculateOverallRisk ==
    /\ aggOut = NoOutput
    /\ aggOut' = IF _calculate_overall_risk_raises(aggIn, aggType)
                 THEN [by |-> "_calculate_overall_risk", raised |-> TRUE]
                 ELSE [by |-> "_calculate_overall_risk", raised |-> FALSE,
                       result |-> _calculate_overall_risk(aggIn, aggType)]
    /\ UNCHANGED <<aggIn, aggType, runVars, chVars, matchVars, vcVars, gatherVars, webVars, bindVars, queueVars>>

CallRecalculateRiskWithJcq ==
    /\ aggOut = NoOutput
    /\ aggOut' = [by |-> "_recalculate_risk_with_jcq",
                  result |-> _recalculate_risk_with_jcq(aggIn)]
    /\ UNCHANGED <<aggIn, aggType, runVars, chVars, matchVars, vcVars, gatherVars, webVars, bindVars, queueVars>>

NextAgg ==
    \/ AggAppend
    \/ CallAssessEducationalRisk
    \/ CallCalculateOverallRisk
    \/ CallRecalculateRiskWithJcq

\* An aggregator has returned a result (it did not raise).
AggReturned ==
    /\ aggOut.by # "none"
    /\ (aggOut.by = "_calculate_overall_risk" => ~aggOut.raised)

(***************************************************************************)
(* Company registry: EnhancedCompaniesHouseAPI and CompaniesHouseAPI       *)
(***************************************************************************)
\* self.max_retries
max_retries == 3

\* company_number as submitted: absent (None), the empty string, or a number.
EmptyString == ""
CompanyNumbers == {NoValue, EmptyString, "12345678"}

\* What one GET on /company/{number} can end in: a 200 with a JSON body, a
\* 200 whose body does not decode (response.json() raises), 404, 401, any
\* other status, asyncio.TimeoutError, any other exception.
HttpOutcomes == {"200", "200_undecodable", "404", "401", "500", "timeout", "exception"}

\* Tokens for the parts of the registry data that the risk analysis reads.
CompanyStatusTokens == {"active", "dissolved", "administration", "dormant"}
NameTokens     == {"no_expected_name", "match", "mismatch"}
OfficerTokens  == {"error", "no_active", "no_active_recent_resignations",
                   "single_private_limited", "single_private_limited_recent_resignations",
                   "enough", "enough_recent_resignations"}
AgeTokens      == {"unknown", "under_1_year", "under_2_years", "over_50_years",
                   "between", "unparseable"}
FilingTokens   == {"error", "no_filings", "many_issues", "some_issues", "clean"}
TypeTokens     == {"educational", "risky", "ordinary"}
ChargeTokens   == {"error", "more_than_5", "some", "none"}
PscTokens      == {"error", "no_items", "statements", "clean"}

\* Every combination of registry data the analysis can be given.
CompanyFacts ==
    [company_status : CompanyStatusTokens, name : NameTokens,
     officers : OfficerTokens, age : AgeTokens, filings : FilingTokens,
     type : TypeTokens, charges : ChargeTokens, psc : PscTokens]

\* Registry data of an active, long-registered company whose name matches.
NominalFacts ==
    [company_status |-> "active", name |-> "match", officers |-> "enough",
     age |-> "between", filings |-> "clean", type |-> "ordinary",
     charges |-> "none", psc |-> "clean"]

\* The registry data the lookups are answered with: at most MaxDeviations of
\* its parts differ from the nominal company's.
RECURSIVE WithDeviations(_)
WithDeviations(n) ==
    IF n = 0 THEN {NominalFacts}
    ELSE LET facts == WithDeviations(n - 1)
             parts == [company_status |-> CompanyStatusTokens, name |-> NameTokens,
                       officers |-> OfficerTokens, age |-> AgeTokens,
                       filings |-> FilingTokens, type |-> TypeTokens,
                       charges |-> ChargeTokens, psc |-> PscTokens]
         IN  facts \cup UNION { { [f EXCEPT ![k] = v] : v \in parts[k] } :
                                  f \in facts, k \in DOMAIN parts }

AnalysedFacts == WithDeviations(MaxDeviations)

_analyze_company_status(st) ==
    CASE st = "active" -> 0
      [] st = "dissolved" -> 80
      [] st = "administration" -> 60
      [] OTHER -> 40

_analyze_name_match(n) == IF n = "mismatch" THEN 30 ELSE 0

_analyze_officers(o) ==
    CASE o = "error" -> 10
      [] o = "no_active" -> 40
      [] o = "no_active_recent_resignations" -> 60
      [] o = "single_private_limited" -> 20
      [] o = "single_private_limited_recent_resignations" -> 40
      [] o = "enough" -> 0
      [] o = "enough_recent_resignations" -> 20

_analyze_company_age(a) ==
    CASE a = "unknown" -> 10
      [] a = "under_1_year" -> 30
      [] a = "under_2_years" -> 20
      [] a = "over_50_years" -> -10
      [] a = "between" -> 0
      [] a = "unparseable" -> 10

_analyze_filing_history(f) ==
    CASE f = "error" -> 10
      [] f = "no_filings" -> 20
      [] f = "many_issues" -> 30
      [] f = "some_issues" -> 10
      [] f = "clean" -> 0

_analyze_company_type(t) ==
    CASE t = "educational" -> -5
      [] t = "risky" -> 20
      [] t = "ordinary" -> 0

_analyze_charges(c) ==
    CASE c = "error" -> 0
      [] c = "more_than_5" -> 30
      [] c = "some" -> 10
      [] c = "none" -> 0

_analyze_psc(p) ==
    CASE p = "error" -> 10
      [] p = "no_items" -> 20
      [] p = "statements" -> 15
      [] p = "clean" -> 0

\* final_risk_score = min(risk_score, 1.0)
FinalRiskScore(risk_score) == IF risk_score < 100 THEN risk_score ELSE 100

\* The status ladder shared by _analyze_company_data and _process_company_data.
CompanyStatusFor(score) ==
    IF score < 30 THEN "passed" ELSE IF score < 70 THEN "flagged" ELSE "failed"

\* The recommendations the parts of the analysis contribute, in its order.
AnalysisRecommendations(f) ==
    (IF f.company_status = "active" THEN <<>>
     ELSE <<"Company status requires review">>)
    \o (IF f.name = "mismatch" THEN <<"Company name does not match expected">> ELSE <<>>)
    \o (CASE f.officers = "error" -> <<"Could not verify company officers">>
          [] f.officers = "no_active" -> <<"No active officers found">>
          [] f.officers = "no_active_recent_resignations" ->
                 <<"No active officers found", "Multiple recent officer resignations">>
          [] f.officers = "single_private_limited" ->
                 <<"Very few active officers for company type">>
          [] f.officers = "single_private_limited_recent_resignations" ->
                 <<"Very few active officers for company type",
                   "Multiple recent officer resignations">>
          [] f.officers = "enough_recent_resignations" ->
                 <<"Multiple recent officer resignations">>
          [] OTHER -> <<>>)
    \o (CASE f.age = "unknown" -> <<"Incorporation date not available">>
          [] f.age = "under_1_year" -> <<"Company incorporated less than 1 year ago">>
          [] f.age = "under_2_years" -> <<"Relatively new company - monitor performance">>
          [] f.age = "unparseable" -> <<"Could not parse incorporation date">>
          [] OTHER -> <<>>)
    \o (CASE f.filings = "error" -> <<"Could not verify filing history">>
          [] f.filings = "no_filings" -> <<"No recent filings found">>
          [] f.filings = "many_issues" -> <<"Multiple compliance issues in filing history">>
          [] f.filings = "some_issues" -> <<"Some filing irregularities noted">>
          [] OTHER -> <<>>)
    \o (IF f.type = "risky" THEN <<"Unusual company type for educational provider">>
        ELSE <<>>)
    \o (CASE f.charges = "more_than_5" ->
                 <<"Multiple outstanding charges against company assets">>
          [] f.charges = "some" -> <<"Company has secured debts">>
          [] OTHER -> <<>>)
    \o (CASE f.psc = "error" -> <<"Could not verify persons with significant control">>
          [] f.psc = "no_items" -> <<"No PSC information available">>
          [] f.psc = "statements" -> <<"PSC statements present">>
          [] OTHER -> <<>>)

_analyze_company_data(f) ==
    LET risk_score == 10 + _analyze_company_status(f.company_status)
                         + (IF f.name = "no_expected_name" THEN 0
                            ELSE _analyze_name_match(f.name))
                         + _analyze_officers(f.officers)
                         + _analyze_company_age(f.age)
                         + _analyze_filing_history(f.filings)
                         + _analyze_company_type(f.type)
                         + _analyze_charges(f.charges)
                         + _analyze_psc(f.psc)
        final == FinalRiskScore(risk_score)
        confidence == 90 - (IF f.officers = "error" THEN 10 ELSE 0)
                         - (IF f.filings = "error" THEN 10 ELSE 0)
                         - (IF f.charges = "error" THEN 5 ELSE 0)
                         - (IF f.psc = "error" THEN 5 ELSE 0)
    IN  [status |-> CompanyStatusFor(final), risk_score |-> final,
         confidence |-> confidence,
         recommendations |-> AnalysisRecommendations(f)]

\* The dict verify_company_comprehensive returns without an API key.
NotConfiguredDict ==
    [status |-> "not_configured", risk_score |-> 30, confidence |-> 0,
     recommendations |-> <<"Configure Companies House API key for full verification">>]
\* The dict of its own except clause.
ComprehensiveErrorDict ==
    [status |-> "error", risk_score |-> 70, confidence |-> 0,
     recommendations |-> <<"Manual company verification required">>]
\* The dicts _get_company_data returns for 404, 401, an exhausted retry on an
\* unexpected status or exception, and an exhausted retry on a timeout.
NotFoundDict     == [status |-> "failed", risk_score |-> 90]
AuthFailedDict   == [status |-> "error", risk_score |-> 50]
ApiErrorDict     == [status |-> "error", risk_score |-> 60]
ApiTimeoutDict   == [status |-> "error", risk_score |-> 50]

\* A real-orchestrator VerificationResult.
RealResult(ct, st, rs, conf) ==
    [check_type |-> ct, status |-> st, risk_num |-> rs, risk_den |-> 1,
     confidence |-> conf]

\* CompaniesHouseAPI._process_company_data; no officer is ever recorded as
\* disqualified, so that factor never fires.
_process_company_data(f) ==
    LET risk_score == 10 + (IF f.company_status # "active" THEN 70 ELSE 0)
                         + (IF f.name = "mismatch" THEN 30 ELSE 0)
                         + (IF f.type = "risky" THEN 20 ELSE 0)
    IN  RealResult("companies_house_verification", CompanyStatusFor(risk_score),
                   FinalRiskScore(risk_score),
                   IF f.company_status = "active" THEN 95 ELSE 80)

\* CompaniesHouseAPI._create_error_result
CompaniesHouseErrorResult ==
    WithRecommendations(RealResult("companies_house_verification", "error", 70, 0),
                        <<"Manual verification required due to API error">>)

\* CompaniesHouseAPI.verify_company's 404 result (confidence defaults to 1.0).
CompaniesHouseNotFoundResult ==
    RealResult("companies_house_verification", "failed", 90, 100)

\* UKEducationalKYCOrchestrator.verify_company_registration: the dict of the
\* enhanced service becomes the company_registration result.
CompanyRegistrationFromDict(d) ==
    WithRecommendations(
        Result("company_registration", d.status, d.risk_score),
        \* companies_house_result.get("recommendations", [])
        IF "recommendations" \in DOMAIN d THEN d.recommendations ELSE <<>>)

\* CombinedEducationalKYCOrchestrator._convert_real
_convert_real(r, ct) ==
    LET converted == Result(ct, r.status, r.risk_num)
    IN  IF "recommendations" \in DOMAIN r
        THEN WithRecommendations(converted, r.recommendations)
        ELSE converted

(***************************************************************************)
(* SpecCH: one company-registry lookup, step by step                       *)
(***************************************************************************)
ChIdleState ==
    [pc |-> "idle", api |-> NoValue, company_number |-> NoValue,
     attempt |-> 0, requests |-> 0, last |-> NoValue, sleeps |-> <<>>,
     followups |-> 0]

ChDone(c, res) == [c EXCEPT !.pc = "done"] @@ [result |-> res]

\* Retry-bound mutant: the last attempt is recognised one iteration late.
IsLastAttemptOffByOne(attempt) == attempt = max_retries

\* attempt == self.max_retries - 1
IsLastAttempt(attempt) == attempt = max_retries - 1

\* Permanent-failure mutant: 404 is treated like any unexpected status.
IsPermanentOnly401(outcome) == outcome = "401"

\* The answers that end _get_company_data at once with an error dict.
IsPermanent(outcome) == outcome \in {"404", "401"}

\* The error dict _get_company_data returns when it gives up on `outcome`.
GiveUpDict(outcome) ==
    CASE outcome = "404"     -> NotFoundDict
      [] outcome = "401"     -> AuthFailedDict
      [] outcome = "timeout" -> ApiTimeoutDict
      [] OTHER               -> ApiErrorDict

\* verify_company_comprehensive / verify_company is called; it runs up to its
\* first request.
ChStart ==
    /\ ch.pc = "idle"
    /\ \E api \in {"enhanced", "real"}, configured \in BOOLEAN, cn \in CompanyNumbers :
         LET c == [ch EXCEPT !.api = api, !.company_number = cn]
         IN  \* a CompaniesHouseAPI object exists only with a key
             /\ api = "real" => configured
             /\ ch' = IF api = "enhanced" /\ ~configured
                          THEN ChDone(c, NotConfiguredDict)
                      ELSE IF cn = NoValue   \* company_number.upper() raises
                          THEN ChDone(c, IF api = "enhanced"
                                         THEN ComprehensiveErrorDict
                                         ELSE CompaniesHouseErrorResult)
                      ELSE [c EXCEPT !.pc = IF api = "enhanced"
                                            THEN "attempt" ELSE "real_request"]
    /\ UNCHANGED <<aggVars, runVars, matchVars, vcVars, gatherVars, webVars, bindVars, queueVars>>

\* return {"error": "Max retries exceeded"}: the dict has no status and no
\* risk_score; verify_company_registration fills in "error" and 0.7.
MaxRetriesExceededDict == [status |-> "error", risk_score |-> 70, exhausted |-> TRUE]

\* One iteration of the retry loop of _get_company_data: the request, then a
\* return, or the sleep before the next iteration; the loop ends after
\* iteration max_retries - 1.
ChAttempt ==
    /\ ch.pc = "attempt"
    /\ \E outcome \in HttpOutcomes :
         LET c == [ch EXCEPT !.requests = @ + 1, !.last = outcome]
             slept == [c EXCEPT !.sleeps = Append(@, 2 ^ ch.attempt),
                                !.attempt = @ + 1]
         IN  ch' = IF outcome = "200"
                       THEN [c EXCEPT !.pc = "fetched"]
                   ELSE IF IsPermanent(outcome) \/ IsLastAttempt(ch.attempt)
                       THEN ChDone(c, GiveUpDict(outcome))
                   ELSE IF slept.attempt < max_retries
                       THEN slept
                   ELSE ChDone(slept, MaxRetriesExceededDict)
    /\ UNCHANGED <<aggVars, runVars, matchVars, vcVars, gatherVars, webVars, bindVars, queueVars>>

\* The officers, filing-history, charges and PSC requests, then the analysis.
ChAnalyze ==
    /\ ch.pc = "fetched"
    /\ \E f \in AnalysedFacts :
         ch' = ChDone([ch EXCEPT !.followups = 4], _analyze_company_data(f))
    /\ UNCHANGED <<aggVars, runVars, matchVars, vcVars, gatherVars, webVars, bindVars, queueVars>>

\* The registry data _process_company_data reads: status, name and type.
RealCompanyFacts ==
    [company_status : CompanyStatusTokens, name : NameTokens,
     officers : {"enough"}, age : {"between"}, filings : {"clean"},
     type : TypeTokens, charges : {"none"}, psc : {"clean"}]

\* CompaniesHouseAPI.verify_company: one request, and the officers request
\* when it answers 200.
ChRealRequest ==
    /\ ch.pc = "real_request"
    /\ \E outcome \in HttpOutcomes :
         LET c == [ch EXCEPT !.requests = @ + 1, !.last = outcome]
         IN  \/ /\ outcome = "200"
                /\ \E f \in RealCompanyFacts :
                     ch' = ChDone([c EXCEPT !.followups = 1], _process_company_data(f))
             \/ /\ outcome = "404"
                /\ ch' = ChDone(c, CompaniesHouseNotFoundResult)
             \/ /\ outcome \notin {"200", "404"}
                /\ ch' = ChDone(c, CompaniesHouseErrorResult)
    /\ UNCHANGED <<aggVars, runVars, matchVars, vcVars, gatherVars, webVars, bindVars, queueVars>>

ChInit == ch = ChIdleState

NextCH ==
    \/ ChStart
    \/ ChAttempt
    \/ ChAnalyze
    \/ ChRealRequest

(***************************************************************************)
(* Adapters of the orchestrators                                           *)
(***************************************************************************)
\* verify_company_comprehensive when the registry answers the first request
\* with `answer` (200, 404 or 401: the answers that need no retry).
verify_company_comprehensive(configured, company_number, answer) ==
    IF ~configured THEN NotConfiguredDict
    ELSE IF company_number = NoValue THEN ComprehensiveErrorDict
    ELSE IF answer = "200" THEN _analyze_company_data(NominalFacts)
    ELSE GiveUpDict(answer)

\* CompaniesHouseAPI.verify_company for the answer to its request.
verify_company(company_number, answer) ==
    IF company_number = NoValue THEN CompaniesHouseErrorResult
    ELSE IF answer = "200" THEN _process_company_data(NominalFacts)
    ELSE IF answer = "404" THEN CompaniesHouseNotFoundResult
    ELSE CompaniesHouseErrorResult

\* The combined orchestrator uses the real client when one was constructed.
UsesRealCompaniesHouse(o) == o.variant = "combined" /\ o.ch_key
UsesRealUkrlp(o, r) == o.variant = "combined" /\ o.ukrlp_creds /\ r.ukprn # NoValue

verify_company_registration(o, r, answer) ==
    IF UsesRealCompaniesHouse(o)
    THEN _convert_real(verify_company(r.company_number, answer), "company_registration")
    ELSE CompanyRegistrationFromDict(
             verify_company_comprehensive(o.ch_key, r.company_number, answer))

\* A GET on /company/... is sent: the service is configured and
\* company_number.upper() did not raise.
CompanyRegistrationDoesIO(o, r) == o.ch_key /\ r.company_number # NoValue

\* UKRLPAPI.verify_ukprn for an 8-digit UKPRN starting with 10 (its register
\* lookup is simulated: the name it returns is the submitted name).
verify_ukprn(ukprn) ==
    IF ukprn = NoValue
    THEN RealResult("ukprn_validation", "failed", 80, 100)
    ELSE RealResult("ukprn_validation", "passed", 10, 90)

\* Answers of the provider register (live page or simulated fallback).
UkrlpAnswers == {"verified_active", "verified_inactive", "not_verified", "unknown"}

validate_ukprn(o, r, answer) ==
    IF UsesRealUkrlp(o, r)
    THEN _convert_real(verify_ukprn(r.ukprn), "ukprn_validation")
    ELSE IF r.ukprn = NoValue
    THEN Result("ukprn_validation", "not_applicable", 30)
    ELSE CASE answer = "verified_active"   -> Result("ukprn_validation", "passed", 10)
           [] answer = "verified_inactive" -> Result("ukprn_validation", "flagged", 60)
           [] answer = "not_verified"      -> Result("ukprn_validation", "failed", 80)
           [] OTHER                        -> Result("ukprn_validation", "flagged", 50)

\* _get_real_ukrlp_data fetches the register page for a well-formed UKPRN.
UkprnDoesIO(o, r) == ~UsesRealUkrlp(o, r) /\ r.ukprn # NoValue

\* Answers of postcodes.io.
PostcodeAnswers == {"200_valid", "200_invalid", "404", "other_status", "exception"}

validate_postcode(r, answer) ==
    IF r.postcode = NoValue
    THEN Result("postcode_validation", "failed", 50)
    ELSE CASE answer = "200_valid"    -> Result("postcode_validation", "passed", 5)
           [] answer = "200_invalid"  -> Result("postcode_validation", "failed", 70)
           [] answer = "404"          -> Result("postcode_validation", "failed", 80)
           [] answer = "other_status" ->
                  WithRecommendations(Result("postcode_validation", "error", 40),
                                      <<"Retry postcode validation later">>)
           [] OTHER                   -> _create_error_result("postcode_validation")

PostcodeDoesIO(r) == r.postcode # NoValue

\* SanctionsAPI.check_sanctions when the simulated list check says `listed`.
RealSanctionsResult(listed) ==
    IF listed
    THEN WithRecommendations(
             RealResult("sanctions_screening", "flagged", 95, 95),
             <<"IMMEDIATE REVIEW REQUIRED",
               "Do not proceed without enhanced due diligence",
               "Contact compliance team">>)
    ELSE WithRecommendations(RealResult("sanctions_screening", "passed", 5, 90), <<>>)

\* SanctionsAPI.check_sanctions (combined) and the mocked sanctions check
\* (UK); `listed` says whether the screening found the name.
check_sanctions(o, listed) ==
    IF o.variant = "combined"
    THEN _convert_real(RealSanctionsResult(listed), "sanctions_screening")
    ELSE IF listed
        THEN WithRecommendations(Result("sanctions_screening", "flagged", 90),
                                 <<"Enhanced due diligence required">>)
    ELSE WithRecommendations(Result("sanctions_screening", "passed", 5), <<>>)

\* OfqualAPI.verify_awarding_organisation
verify_awarding_organisation(recognised) ==
    IF recognised
    THEN RealResult("ofqual_recognition", "passed", 10, 80)
    ELSE RealResult("ofqual_recognition", "not_applicable", 30, 80)

check_ofqual_recognition(o, r, recognised) ==
    IF o.variant = "combined"
    THEN _convert_real(verify_awarding_organisation(recognised), "ofqual_recognition")
    ELSE IF ~recognised /\ r.qualifications_offered # <<>>
        THEN Result("ofqual_recognition", "flagged", 40)
    ELSE IF recognised THEN Result("ofqual_recognition", "passed", 10)
    ELSE Result("ofqual_recognition", "not_applicable", 20)

\* Ofsted grades, and whether safeguarding is below "Good".
OfstedRatings == {"Outstanding", "Good", "Requires improvement", "Inadequate", "unrated"}

assess_ofsted_rating(rating, safeguarding_concern) ==
    LET base == CASE rating = "Outstanding" -> 5
                  [] rating = "Good" -> 15
                  [] rating = "Requires improvement" -> 50
                  [] rating = "Inadequate" -> 90
                  [] OTHER -> 70
        risk == IF safeguarding_concern
                THEN (IF base + 30 < 100 THEN base + 30 ELSE 100) ELSE base
    IN  Result("ofsted_rating", CompanyStatusFor(risk), risk)

\* RoATP provider_status answers and whether funding restrictions exist.
EsfaStatuses == {"Main provider", "Supporting provider", "Employer provider", "unlisted"}

verify_esfa_status(roatp_status, restricted) ==
    LET base == CASE roatp_status = "Main provider" -> 10
                  [] roatp_status = "Supporting provider" -> 20
                  [] roatp_status = "Employer provider" -> 15
                  [] OTHER -> 60
        risk == IF restricted THEN (IF base + 30 < 100 THEN base + 30 ELSE 100) ELSE base
    IN  Result("esfa_funding_status", IF risk < 30 THEN "passed" ELSE "flagged", risk)

\* A qualification entry that is not a string: qualification[:20] raises.
NonString == "<not a string>"
\* Well-formed qualification titles, in the order a request lists them.
Titles == <<"Level 3 Diploma", "GCSE Mathematics", "BTEC Business">>

\* Titles longer than 20 characters that share their first 20 characters,
\* "Level 3 Extended Dip".
LongTitles ==
    {"Level 3 Extended Diploma in Engineering",
     "Level 3 Extended Diploma in Business"}

\* f"qualification_validation_{qualification[:20]}": the prefix followed by
\* the first 20 characters of the title (the whole title when it is shorter).
QualificationCheckType(title) ==
    CASE title = "Level 3 Diploma"  -> "qualification_validation_Level 3 Diploma"
      [] title = "GCSE Mathematics" -> "qualification_validation_GCSE Mathematics"
      [] title = "BTEC Business"    -> "qualification_validation_BTEC Business"
      [] title \in LongTitles       -> "qualification_validation_Level 3 Extended Dip"

\* The register's answer for one qualification.
QualificationAnswers == {"regulated_current", "regulated_ended", "unregulated"}

QualificationResult(title, answer) ==
    CASE answer = "regulated_current" ->
             Result(QualificationCheckType(title), "passed", 10)
      [] answer = "regulated_ended" ->
             Result(QualificationCheckType(title), "flagged", 40)
      [] OTHER ->
             Result(QualificationCheckType(title), "flagged", 50)

\* validate_qualifications raises when building the check_type of a
\* non-string entry raises inside its except clause as well.
validate_qualifications_raises(quals) ==
    \E i \in 1..Len(quals) : quals[i] = NonString

\* validate_qualifications with the mocked qualification check (regulated,
\* no operational end date).
validate_qualifications(quals) ==
    [i \in 1..Len(quals) |-> QualificationResult(quals[i], "regulated_current")]

\* JCQCentreAPI.verify_centre_number: five digits not starting with 0, looked
\* up in the simulated directory (centre 12345 is active under the submitted
\* name with two qualification types).
JcqCentreNumbers == {NoValue, "12345", "1234"}

verify_centre_number(centre_number) ==
    IF centre_number = "12345"
    THEN RealResult("jcq_centre_verification", "passed", 10, 90)
    ELSE RealResult("jcq_centre_verification", "failed", 80, 100)

(***************************************************************************)
(* Sanctions screening by name                                             *)
(***************************************************************************)
\* Organisation names and keywords are sequences of characters.
UpperCase == <<"A", "B", "C", "D", "E", "F", "G", "H", "I", "J", "K", "L", "M",
               "N", "O", "P", "Q", "R", "S", "T", "U", "V", "W", "X", "Y", "Z">>
LowerCase == <<"a", "b", "c", "d", "e", "f", "g", "h", "i", "j", "k", "l", "m",
               "n", "o", "p", "q", "r", "s", "t", "u", "v", "w", "x", "y", "z">>

\* str.lower() on one character and on a name.
LowerChar(c) ==
    IF \E i \in 1..26 : UpperCase[i] = c
    THEN LowerCase[CHOOSE i \in 1..26 : UpperCase[i] = c]
    ELSE c
Lower(name) == [i \in 1..Len(name) |-> LowerChar(name[i])]

\* Python's `flag in name`: flag occurs in name as a contiguous substring.
Contains(name, flag) ==
    \E i \in 0..(Len(name) - Len(flag)) :
        SubSeq(name, i + 1, i + Len(flag)) = flag

\* flagged_names of SanctionsAPI._simulate_sanctions_check
flagged_names ==
    { <<"b", "a", "n", "n", "e", "d">>,
      <<"s", "a", "n", "c", "t", "i", "o", "n", "e", "d">>,
      <<"p", "r", "o", "h", "i", "b", "i", "t", "e", "d">>,
      <<"b", "l", "o", "c", "k", "e", "d">>,
      <<"t", "e", "r", "r", "o", "r", "i", "s", "t">>,
      <<"c", "r", "i", "m", "i", "n", "a", "l">>,
      <<"f", "r", "a", "u", "d">> }

\* SanctionsAPI._simulate_sanctions_check
_simulate_sanctions_check(name) ==
    \E flag \in flagged_names : Contains(Lower(name), flag)

\* UKEducationalKYCOrchestrator._mock_sanctions_check: "matches" is False
\* whatever the name.
_mock_sanctions_check(name) == FALSE

\* The organisation names the sanctions adapters are called with.
OrganisationNames ==
    { <<"O", "a", "k", " ", "H", "a", "l", "l">>,
      <<"F", "R", "A", "U", "D", " ", "E", "d">>,
      <<"u", "n", "B", "a", "n", "n", "e", "d">>,
      <<"B", "l", "o", "c", "k", "e", "d">> }

(***************************************************************************)
(* Spec: one orchestrator run                                              *)
(***************************************************************************)
\* The orchestrators: the UK orchestrator, the combined orchestrator (as
\* constructed by the web layer), the real orchestrator, and the real
\* orchestrator wrapped by the JCQ extension.  ch_key: a Companies House API
\* key is configured; ukrlp_creds: UKRLP credentials are configured.
Orchestrators ==
    [variant : {"uk"}, ch_key : BOOLEAN, ukrlp_creds : {FALSE}]
    \cup [variant : {"combined", "real", "real_jcq"},
          ch_key : BOOLEAN, ukrlp_creds : BOOLEAN]

IsEdu(o) == o.variant \in {"uk", "combined"}

Ukprns == {NoValue, "10012345"}
Postcodes == {NoValue, "M1 1AA"}

\* Up to MaxQuals well-formed titles, or a list holding a non-string entry.
QualLists ==
    { SubSeq(Titles, 1, n) : n \in 0..MaxQuals } \cup { <<NonString>> }

\* Requests to the UK / combined orchestrator.
EduRequests ==
    [company_number : CompanyNumbers, ukprn : Ukprns, postcode : Postcodes,
     provider_type : {"FE College", "Private Training"},
     qualifications_offered : QualLists, jcq_centre_number : {NoValue}]

\* provider_data handed to the real orchestrator.
RealRequests ==
    [company_number : CompanyNumbers, ukprn : Ukprns, postcode : {"M1 1AA"},
     provider_type : FormTypes,
     qualifications_offered : {<<>>}, jcq_centre_number : JcqCentreNumbers]

NoRequest ==
    [company_number |-> NoValue, ukprn |-> NoValue, postcode |-> NoValue,
     provider_type |-> NoValue, qualifications_offered |-> <<>>,
     jcq_centre_number |-> NoValue]

NoOrchestrator == [variant |-> "none", ch_key |-> FALSE, ukrlp_creds |-> FALSE]

\* What the run has done so far: checks dispatched, checks that raised past
\* their own boundary, adapters that performed network I/O, the lists the
\* aggregators were called with, and what the entry point handed back.
NoTrace ==
    [dispatched |-> <<>>, raised |-> {}, netio |-> {},
     agg_inputs |-> <<>>, returned |-> <<>>]

RunIdle ==
    /\ pc = "idle" /\ orch = NoOrchestrator /\ request = NoRequest
    /\ results = <<>> /\ trace = NoTrace

RunInit == RunIdle

\* Filter mutant: a raising task still leaves an entry in the list.
GatherKeepingAll(tasks, raising) ==
    [i \in 1..Len(tasks) |-> tasks[i].result]

\* asyncio.gather(..., return_exceptions=True) followed by the isinstance
\* filter: the results of the tasks that did not raise, in task order.
Gather(tasks, raising) ==
    LET kept == SelectSeq(tasks, LAMBDA t : t.name \notin raising)
    IN  [i \in 1..Len(kept) |-> kept[i].result]

TaskNames(tasks) == [i \in 1..Len(tasks) |-> tasks[i].name]
NameSet(tasks) == { tasks[i].name : i \in 1..Len(tasks) }

\* The registry answers a run is explored with.
RunCompanyAnswers == {"200", "404"}

\* A request arrives and an orchestrator is constructed for it.
RunStart ==
    /\ pc = "idle"
    /\ \E o \in Orchestrators :
         /\ orch' = o
         /\ request' \in (IF IsEdu(o) THEN EduRequests ELSE RealRequests)
         \* the JCQ extension is explored with and without a centre number,
         \* the bare real orchestrator ignores the field
         /\ (o.variant = "real" => request'.jcq_centre_number = NoValue)
    /\ pc' = "phase1"
    /\ UNCHANGED <<results, trace, aggVars, chVars, matchVars, vcVars, gatherVars, webVars, bindVars, queueVars>>

\* process_educational_kyc, phase 1: the four basic checks are gathered.
EduPhase1 ==
    /\ pc = "phase1" /\ IsEdu(orch)
    /\ \E answer \in RunCompanyAnswers, raising \in SUBSET
            {"company_registration", "ukprn_validation",
             "postcode_validation", "sanctions_screening"} :
         LET tasks == <<
                 [name |-> "company_registration",
                  result |-> verify_company_registration(orch, request, answer)],
                 [name |-> "ukprn_validation",
                  result |-> validate_ukprn(orch, request, "verified_active")],
                 [name |-> "postcode_validation",
                  result |-> validate_postcode(request, "200_valid")],
                 [name |-> "sanctions_screening",
                  result |-> check_sanctions(orch, FALSE)] >>
             io == (IF CompanyRegistrationDoesIO(orch, request)
                    THEN {"company_registration"} ELSE {})
                   \cup (IF UkprnDoesIO(orch, request) THEN {"ukprn_validation"} ELSE {})
                   \cup (IF PostcodeDoesIO(request) THEN {"postcode_validation"} ELSE {})
         IN  /\ results' = results \o Gather(tasks, raising)
             /\ trace' = [trace EXCEPT !.dispatched = @ \o TaskNames(tasks),
                                       !.raised = @ \cup raising,
                                       !.netio = @ \cup (io \ raising)]
    /\ pc' = "phase2"
    /\ UNCHANGED <<orch, request, aggVars, chVars, matchVars, vcVars, gatherVars, webVars, bindVars, queueVars>>

\* process_educational_kyc, phase 2: the three regulatory checks are gathered.
EduPhase2 ==
    /\ pc = "phase2" /\ IsEdu(orch)
    /\ \E raising \in SUBSET {"ofqual_recognition", "ofsted_rating", "esfa_funding_status"} :
         LET tasks == <<
                 [name |-> "ofqual_recognition",
                  result |-> check_ofqual_recognition(orch, request, FALSE)],
                 [name |-> "ofsted_rating",
                  result |-> assess_ofsted_rating("Good", FALSE)],
                 [name |-> "esfa_funding_status",
                  result |-> verify_esfa_status("Main provider", FALSE)] >>
         IN  /\ results' = results \o Gather(tasks, raising)
             /\ trace' = [trace EXCEPT !.dispatched = @ \o TaskNames(tasks),
                                       !.raised = @ \cup raising,
                                       !.netio = @ \cup ({"ofsted_rating"} \ raising)]
    /\ pc' = "phase3"
    /\ UNCHANGED <<orch, request, aggVars, chVars, matchVars, vcVars, gatherVars, webVars, bindVars, queueVars>>

\* process_educational_kyc, phase 3: validate_qualifications is awaited
\* directly; an exception leaves through "except Exception: ... raise".
EduPhase3 ==
    /\ pc = "phase3" /\ IsEdu(orch)
    /\ LET quals == request.qualifications_offered
       IN  IF quals = <<>>
           THEN /\ pc' = "phase4"
                /\ UNCHANGED <<results, trace>>
           ELSE IF validate_qualifications_raises(quals)
           THEN /\ pc' = "raised"
                /\ trace' = [trace EXCEPT !.dispatched = @ \o <<"qualification_validation">>,
                                          !.raised = @ \cup {"qualification_validation"}]
                /\ UNCHANGED results
           ELSE /\ pc' = "phase4"
                /\ results' = results \o validate_qualifications(quals)
                /\ trace' = [trace EXCEPT
                       !.dispatched = @ \o [i \in 1..Len(quals) |->
                                                QualificationCheckType(quals[i])]]
    /\ UNCHANGED <<orch, request, aggVars, chVars, matchVars, vcVars, gatherVars, webVars, bindVars, queueVars>>

\* process_educational_kyc, phase 4: the aggregate is appended and the list
\* is returned.
EduPhase4 ==
    /\ pc = "phase4" /\ IsEdu(orch)
    /\ LET risk == assess_educational_risk(results, map_provider_type(request.provider_type))
           out  == Append(results, risk)
       IN  /\ results' = out
           /\ trace' = [trace EXCEPT !.agg_inputs = Append(@, results),
                                     !.returned = out]
    /\ pc' = "returned"
    /\ UNCHANGED <<orch, request, aggVars, chVars, matchVars, vcVars, gatherVars, webVars, bindVars, queueVars>>

IsReal(o) == o.variant \in {"real", "real_jcq"}

\* process_provider_kyc, phase 1: the configured basic checks are gathered.
RealPhase1 ==
    /\ pc = "phase1" /\ IsReal(orch)
    /\ \E answer \in RunCompanyAnswers, raising \in SUBSET
            {"companies_house_verification", "ukprn_validation", "sanctions_screening"} :
         LET company == IF orch.ch_key /\ request.company_number \notin {NoValue, EmptyString}
                        THEN << [name |-> "companies_house_verification",
                                 result |-> verify_company(request.company_number, answer)] >>
                        ELSE <<>>
             ukprn   == IF orch.ukrlp_creds /\ request.ukprn # NoValue
                        THEN << [name |-> "ukprn_validation",
                                 result |-> verify_ukprn(request.ukprn)] >>
                        ELSE <<>>
             tasks   == company \o ukprn \o
                        << [name |-> "sanctions_screening",
                            result |-> RealSanctionsResult(FALSE)] >>
         IN  /\ raising \subseteq NameSet(tasks)
             /\ (company = <<>> => answer = "200")
             /\ results' = results \o Gather(tasks, raising)
             /\ trace' = [trace EXCEPT
                    !.dispatched = @ \o TaskNames(tasks),
                    !.raised = @ \cup raising,
                    !.netio = @ \cup ((IF company # <<>>
                                       THEN {"companies_house_verification"} ELSE {})
                                      \ raising)]
    /\ pc' = "phase2"
    /\ UNCHANGED <<orch, request, aggVars, chVars, matchVars, vcVars, gatherVars, webVars, bindVars, queueVars>>

\* process_provider_kyc, phase 2: the Ofqual check is gathered.
RealPhase2 ==
    /\ pc = "phase2" /\ IsReal(orch)
    /\ \E raising \in SUBSET {"ofqual_recognition"} :
         LET tasks == << [name |-> "ofqual_recognition",
                          result |-> verify_awarding_organisation(FALSE)] >>
         IN  /\ results' = results \o Gather(tasks, raising)
             /\ trace' = [trace EXCEPT !.dispatched = @ \o TaskNames(tasks),
                                       !.raised = @ \cup raising]
    /\ pc' = "phase3"
    /\ UNCHANGED <<orch, request, aggVars, chVars, matchVars, vcVars, gatherVars, webVars, bindVars, queueVars>>

\* The result process_provider_kyc returns from its except clause.
OrchestrationErrorResult == RealResult("kyc_orchestration", "error", 80, 0)

\* process_provider_kyc, phase 3: the aggregate is appended and the list is
\* returned; if the aggregator raises, the except clause returns a list
\* holding only the orchestration error.
RealPhase3 ==
    /\ pc = "phase3" /\ IsReal(orch)
    /\ LET failed == _calculate_overall_risk_raises(results, request.provider_type)
           out == IF failed THEN <<OrchestrationErrorResult>>
                  ELSE Append(results, _calculate_overall_risk(results, request.provider_type))
       IN  /\ results' = out
           /\ trace' = [trace EXCEPT
                  !.agg_inputs = Append(@, results),
                  !.returned = out]
    /\ pc' = IF orch.variant = "real" THEN "returned" ELSE "jcq"
    /\ UNCHANGED <<orch, request, aggVars, chVars, matchVars, vcVars, gatherVars, webVars, bindVars, queueVars>>

\* Index (1-based) of the first risk_assessment entry, or Len + 1.
RiskAssessmentIndex(rs) ==
    IF \E i \in 1..Len(rs) : rs[i].check_type = "risk_assessment"
    THEN CHOOSE i \in 1..Len(rs) :
             /\ rs[i].check_type = "risk_assessment"
             /\ \A j \in 1..(i-1) : rs[j].check_type # "risk_assessment"
    ELSE Len(rs) + 1

\* base_results.insert(index, x) with a 1-based index.
InsertAt(rs, i, x) == SubSeq(rs, 1, i - 1) \o <<x>> \o SubSeq(rs, i, Len(rs))

\* process_provider_kyc_with_jcq after the base orchestrator has returned.
JcqExtend ==
    /\ pc = "jcq" /\ orch.variant = "real_jcq"
    /\ IF request.jcq_centre_number = NoValue
       THEN /\ results' = results
            /\ trace' = [trace EXCEPT !.returned = results]
       ELSE LET jcq      == verify_centre_number(request.jcq_centre_number)
                inserted == InsertAt(results, RiskAssessmentIndex(results), jcq)
                input    == SubSeq(inserted, 1, Len(inserted) - 1)
                out      == Append(input, _recalculate_risk_with_jcq(input))
            IN  /\ results' = out
                /\ trace' = [trace EXCEPT
                       !.dispatched = Append(@, "jcq_centre_verification"),
                       !.agg_inputs = Append(@, input),
                       !.returned = out]
    /\ pc' = "returned"
    /\ UNCHANGED <<orch, request, aggVars, chVars, matchVars, vcVars, gatherVars, webVars, bindVars, queueVars>>

Next ==
    \/ RunStart
    \/ EduPhase1
    \/ EduPhase2
    \/ EduPhase3
    \/ EduPhase4
    \/ RealPhase1
    \/ RealPhase2
    \/ RealPhase3
    \/ JcqExtend

(***************************************************************************)
(* SpecAdapter: one adapter called on its own                              *)
(***************************************************************************)
\* The result an adapter of the real orchestrator or of the JCQ extension
\* returns from its own except clause.
RealExceptResult(ct) ==
    CASE ct = "companies_house_verification" -> CompaniesHouseErrorResult
      [] ct = "ofqual_recognition" ->
             WithRecommendations(RealResult(ct, "error", 50, 0),
                                 <<"Manual Ofqual verification required">>)
      [] ct = "ukprn_validation" ->
             WithRecommendations(RealResult(ct, "error", 60, 0),
                                 <<"Manual UKPRN verification required">>)
      [] ct = "sanctions_screening" ->
             WithRecommendations(RealResult(ct, "error", 70, 0),
                                 <<"Manual sanctions screening required">>)
      [] ct = "jcq_centre_verification" ->
             WithRecommendations(RealResult(ct, "error", 60, 0),
                                 <<"Manual JCQ centre verification required">>)

RealAdapters ==
    {"companies_house_verification", "ofqual_recognition", "ukprn_validation",
     "sanctions_screening", "jcq_centre_verification"}

\* The adapters of the UK orchestrator that end in
\* "except Exception: return self._create_error_result(...)".
EduAdapters ==
    {"company_registration", "ukprn_validation", "postcode_validation",
     "ofqual_recognition", "ofsted_rating", "esfa_funding_status",
     "sanctions_screening"}

EduOrchestrators == { o \in Orchestrators : IsEdu(o) }

\* The adapter call that is explored: its name and what it was called with.
AdapterReturns(name, o, r, res) ==
    /\ orch' = o
    /\ request' = r
    /\ results' = <<res>>
    /\ trace' = [trace EXCEPT !.dispatched = <<name>>]

CallVerifyCompanyRegistration ==
    /\ pc = "idle"
    /\ \E o \in EduOrchestrators, r \in EduRequests, answer \in HttpOutcomes :
           AdapterReturns("verify_company_registration", o, r,
                          verify_company_registration(o, r, answer))
    /\ pc' = "adapter_returned"
    /\ UNCHANGED <<aggVars, chVars, matchVars, vcVars, gatherVars, webVars, bindVars, queueVars>>

CallValidateUkprn ==
    /\ pc = "idle"
    /\ \E o \in EduOrchestrators, r \in EduRequests, answer \in UkrlpAnswers :
           AdapterReturns("validate_ukprn", o, r, validate_ukprn(o, r, answer))
    /\ pc' = "adapter_returned"
    /\ UNCHANGED <<aggVars, chVars, matchVars, vcVars, gatherVars, webVars, bindVars, queueVars>>

CallValidatePostcode ==
    /\ pc = "idle"
    /\ \E o \in EduOrchestrators, r \in EduRequests, answer \in PostcodeAnswers :
           AdapterReturns("validate_postcode", o, r, validate_postcode(r, answer))
    /\ pc' = "adapter_returned"
    /\ UNCHANGED <<aggVars, chVars, matchVars, vcVars, gatherVars, webVars, bindVars, queueVars>>

\* The sanctions adapter of the UK, combined or real orchestrator, called for
\* an organisation name.
CallCheckSanctions ==
    /\ pc = "idle"
    /\ \E o \in Orchestrators, name \in OrganisationNames :
           LET r == NoRequest @@ [organisation_name |-> name]
           IN  AdapterReturns("check_sanctions", o, r,
                   IF IsEdu(o)
                   THEN check_sanctions(o, IF o.variant = "combined"
                                           THEN _simulate_sanctions_check(name)
                                           ELSE _mock_sanctions_check(name))
                   ELSE RealSanctionsResult(_simulate_sanctions_check(name)))
    /\ pc' = "adapter_returned"
    /\ UNCHANGED <<aggVars, chVars, matchVars, vcVars, gatherVars, webVars, bindVars, queueVars>>

CallCheckOfqualRecognition ==
    /\ pc = "idle"
    /\ \E o \in EduOrchestrators, r \in EduRequests, recognised \in BOOLEAN :
           AdapterReturns("check_ofqual_recognition", o, r,
                          check_ofqual_recognition(o, r, recognised))
    /\ pc' = "adapter_returned"
    /\ UNCHANGED <<aggVars, chVars, matchVars, vcVars, gatherVars, webVars, bindVars, queueVars>>

CallAssessOfstedRating ==
    /\ pc = "idle"
    /\ \E o \in EduOrchestrators, rating \in OfstedRatings, concern \in BOOLEAN :
           AdapterReturns("assess_ofsted_rating", o, NoRequest,
                          assess_ofsted_rating(rating, concern))
    /\ pc' = "adapter_returned"
    /\ UNCHANGED <<aggVars, chVars, matchVars, vcVars, gatherVars, webVars, bindVars, queueVars>>

CallVerifyEsfaStatus ==
    /\ pc = "idle"
    /\ \E o \in EduOrchestrators, st \in EsfaStatuses, restricted \in BOOLEAN :
           AdapterReturns("verify_esfa_status", o, NoRequest,
                          verify_esfa_status(st, restricted))
    /\ pc' = "adapter_returned"
    /\ UNCHANGED <<aggVars, chVars, matchVars, vcVars, gatherVars, webVars, bindVars, queueVars>>

CallVerifyCentreNumber ==
    /\ pc = "idle"
    /\ \E o \in { x \in Orchestrators : x.variant = "real_jcq" },
          centre \in JcqCentreNumbers :
           AdapterReturns("verify_centre_number", o,
                          [NoRequest EXCEPT !.jcq_centre_number = centre],
                          verify_centre_number(centre))
    /\ pc' = "adapter_returned"
    /\ UNCHANGED <<aggVars, chVars, matchVars, vcVars, gatherVars, webVars, bindVars, queueVars>>

\* Every list of 1..MaxQuals titles, repeats and shared prefixes included.
RECURSIVE TitleLists(_)
TitleLists(n) ==
    IF n = 0 THEN {<<>>}
    ELSE LET shorter == TitleLists(n - 1)
         IN  shorter \cup
             { Append(l, t) : l \in { x \in shorter : Len(x) = n - 1 },
                              t \in { Titles[i] : i \in 1..Len(Titles) } \cup LongTitles }

\* validate_qualifications called with a non-empty list of titles.
CallValidateQualifications ==
    /\ pc = "idle"
    /\ \E o \in EduOrchestrators, quals \in TitleLists(MaxQuals) \ {<<>>} :
           /\ orch' = o
           /\ request' = [NoRequest EXCEPT !.qualifications_offered = quals]
           /\ results' = validate_qualifications(quals)
           /\ trace' = [trace EXCEPT !.dispatched = <<"validate_qualifications">>]
    /\ pc' = "adapter_returned"
    /\ UNCHANGED <<aggVars, chVars, matchVars, vcVars, gatherVars, webVars, bindVars, queueVars>>

\* An adapter meets an exception inside its try block and answers from its
\* except clause.
CallAdapterExcept ==
    /\ pc = "idle"
    /\ \/ \E o \in EduOrchestrators, ct \in EduAdapters :
             AdapterReturns(ct, o, NoRequest, _create_error_result(ct))
       \/ \E o \in { x \in Orchestrators : IsReal(x) }, ct \in RealAdapters :
             AdapterReturns(ct, o, NoRequest, RealExceptResult(ct))
    /\ pc' = "adapter_returned"
    /\ UNCHANGED <<aggVars, chVars, matchVars, vcVars, gatherVars, webVars, bindVars, queueVars>>

NextAdapter ==
    \/ CallVerifyCompanyRegistration
    \/ CallValidateUkprn
    \/ CallValidatePostcode
    \/ CallCheckSanctions
    \/ CallCheckOfqualRecognition
    \/ CallAssessOfstedRating
    \/ CallVerifyEsfaStatus
    \/ CallVerifyCentreNumber
    \/ CallValidateQualifications
    \/ CallAdapterExcept

(***************************************************************************)
(* Fuzzy name matching                                                     *)
(***************************************************************************)
\* Names are sequences of characters; an absent name (None) is NoName.
NoName == <<NoValue>>

\* Python's `not name`: None or the empty string.
IsFalsy(name) == name = NoName \/ name = <<>>

\* The characters outside \w and \s that the names use.
Punctuation == {".", ",", "-", "&"}
IsWordChar(c) == c \notin Punctuation /\ c # " "

\* re.sub(r'[^\w\s]', '', name)
RemovePunctuation(name) == SelectSeq(name, LAMBDA c : c \notin Punctuation)

\* Index of the first space of a name, or Len + 1.
FirstSpace(name) ==
    IF \E i \in 1..Len(name) : name[i] = " "
    THEN CHOOSE i \in 1..Len(name) :
             name[i] = " " /\ \A j \in 1..(i - 1) : name[j] # " "
    ELSE Len(name) + 1

RECURSIVE Split(_)
\* str.split(): the maximal runs of non-space characters.
Split(name) ==
    IF name = <<>> THEN <<>>
    ELSE IF Head(name) = " " THEN Split(Tail(name))
    ELSE LET n == FirstSpace(name)
         IN  <<SubSeq(name, 1, n - 1)>> \o Split(SubSeq(name, n, Len(name)))

RECURSIVE Join(_)
\* ' '.join(words)
Join(words) ==
    IF words = <<>> THEN <<>>
    ELSE IF Len(words) = 1 THEN words[1]
    ELSE words[1] \o <<" ">> \o Join(Tail(words))

\* str.strip()
Strip(name) == 
    IF \A i \in 1..Len(name) : name[i] = " " THEN <<>>
    ELSE LET first == CHOOSE i \in 1..Len(name) :
                          name[i] # " " /\ \A j \in 1..(i - 1) : name[j] = " "
             last  == CHOOSE i \in 1..Len(name) :
                          name[i] # " " /\ \A j \in (i + 1)..Len(name) : name[j] = " "
         IN  SubSeq(name, first, last)

RECURSIVE RemoveWordFrom(_, _, _)
\* re.sub(r'\b' + w + r'\b', '', name), scanning from position i.
RemoveWordFrom(name, w, i) ==
    IF i > Len(name) THEN <<>>
    ELSE IF /\ i + Len(w) - 1 <= Len(name)
            /\ SubSeq(name, i, i + Len(w) - 1) = w
            /\ (i = 1 \/ ~IsWordChar(name[i - 1]))
            /\ (i + Len(w) > Len(name) \/ ~IsWordChar(name[i + Len(w)]))
         THEN RemoveWordFrom(name, w, i + Len(w))
    ELSE <<name[i]>> \o RemoveWordFrom(name, w, i + 1)

RECURSIVE Replace(_, _)
\* name.replace(old, '')
Replace(name, old) ==
    IF Len(name) < Len(old) THEN name
    ELSE IF SubSeq(name, 1, Len(old)) = old
         THEN Replace(SubSeq(name, Len(old) + 1, Len(name)), old)
    ELSE <<Head(name)>> \o Replace(Tail(name), old)

\* suffixes of EnhancedCompaniesHouseAPI._fuzzy_name_match
company_suffixes ==
    << <<"l", "t", "d">>,
       <<"l", "i", "m", "i", "t", "e", "d">>,
       <<"p", "l", "c">>,
       <<"l", "l", "p">>,
       <<"l", "p">>,
       <<"c", "i", "c">>,
       <<"c", "i", "o">>,
       <<"c", "o", "m", "p", "a", "n", "y">> >>

\* suffixes of JCQCentreAPI._fuzzy_match_names
educational_suffixes ==
    << <<"s", "c", "h", "o", "o", "l">>,
       <<"c", "o", "l", "l", "e", "g", "e">>,
       <<"a", "c", "a", "d", "e", "m", "y">>,
       <<"u", "n", "i", "v", "e", "r", "s", "i", "t", "y">>,
       <<"i", "n", "s", "t", "i", "t", "u", "t", "e">>,
       <<"c", "e", "n", "t", "r", "e">>,
       <<"c", "e", "n", "t", "e", "r">>,
       <<"t", "r", "a", "i", "n", "i", "n", "g">>,
       <<"e", "d", "u", "c", "a", "t", "i", "o", "n">>,
       <<"l", "e", "a", "r", "n", "i", "n", "g">>,
       <<"s", "i", "x", "t", "h", " ", "f", "o", "r", "m">>,
       <<"g", "r", "a", "m", "m", "a", "r">>,
       <<"c", "o", "m", "p", "r", "e", "h", "e", "n", "s", "i", "v", "e">>,
       <<"p", "r", "i", "m", "a", "r", "y">>,
       <<"s", "e", "c", "o", "n", "d", "a", "r", "y">> >>

RECURSIVE RemoveCompanySuffixes(_, _)
\* for suffix in suffixes: name = re.sub(r'\b' + suffix + r'\b', '', name)
RemoveCompanySuffixes(name, k) ==
    IF k > Len(company_suffixes) THEN name
    ELSE RemoveCompanySuffixes(RemoveWordFrom(name, company_suffixes[k], 1), k + 1)

RECURSIVE RemoveEducationalSuffixes(_, _)
\* for suffix in suffixes: name = name.replace(suffix, '')
RemoveEducationalSuffixes(name, k) ==
    IF k > Len(educational_suffixes) THEN name
    ELSE RemoveEducationalSuffixes(Replace(name, educational_suffixes[k]), k + 1)

\* normalize_name of EnhancedCompaniesHouseAPI._fuzzy_name_match
NormalizeCompanyName(name) ==
    Join(Split(RemovePunctuation(RemoveCompanySuffixes(Lower(name), 1))))

\* normalize_name of JCQCentreAPI._fuzzy_match_names
NormalizeCentreName(name) ==
    Join(Split(RemovePunctuation(RemoveEducationalSuffixes(Lower(name), 1))))

\* set(norm.split())
WordSet(norm) == { Split(norm)[i] : i \in 1..Len(Split(norm)) }

\* Word overlap: both word sets non-empty and |intersection| / |union| >= 0.6.
WordOverlap(norm1, norm2) ==
    LET words1 == WordSet(norm1)
        words2 == WordSet(norm2)
    IN  /\ words1 # {} /\ words2 # {}
        /\ 10 * Cardinality(words1 \cap words2) >= 6 * Cardinality(words1 \cup words2)

\* Containment mutant: only `norm1 in norm2` is tested.
FirstInSecond(norm1, norm2) == Contains(norm2, norm1)

\* norm1 in norm2 or norm2 in norm1
EitherContains(norm1, norm2) == Contains(norm2, norm1) \/ Contains(norm1, norm2)

\* The common tail of the routines: exact, substring, then word overlap.
NamesAgree(norm1, norm2) ==
    norm1 = norm2 \/ EitherContains(norm1, norm2) \/ WordOverlap(norm1, norm2)

\* EnhancedCompaniesHouseAPI._fuzzy_name_match
_fuzzy_name_match(name1, name2) ==
    IF IsFalsy(name1) \/ IsFalsy(name2) THEN "False"
    ELSE IF NamesAgree(NormalizeCompanyName(name1), NormalizeCompanyName(name2))
         THEN "True" ELSE "False"

\* JCQCentreAPI._fuzzy_match_names
_fuzzy_match_names(name1, name2) ==
    IF IsFalsy(name1) \/ IsFalsy(name2) THEN "False"
    ELSE IF NamesAgree(NormalizeCentreName(name1), NormalizeCentreName(name2))
         THEN "True" ELSE "False"

\* UKEducationalKYCOrchestrator._is_organization_match; .lower() raises
\* AttributeError on None.
_is_organization_match(ofsted_title, org_name) ==
    IF ofsted_title = NoName \/ org_name = NoName THEN "raises"
    ELSE IF NamesAgree(Strip(Lower(ofsted_title)), Strip(Lower(org_name)))
         THEN "True" ELSE "False"

\* The names the routines are compared on.
MatchNames ==
    { NoName,
      <<>>,
      <<"O", "a", "k">>,
      <<"o", "a", "k", " ", "l", "t", "d">>,
      <<"O", "a", "k", " ", "C", "o", "l", "l", "e", "g", "e">>,
      <<"O", "a", "k", " ", "H", "a", "l", "l", " ", "L", "t", "d", ".">>,
      <<"h", "a", "l", "l", " ", "o", "a", "k">>,
      <<"O", "a", "k", "w", "o", "o", "d">>,
      <<"a", " ", "b", " ", "c">>,
      <<"a", " ", "b", " ", "c", " ", "d">>,
      <<"a", " ", "c", " ", "e">>,
      <<"c", "o", "l", "l", "e", "g", "e">>,
      <<"O", "a", "k", " ", "H", "a", "l", "l", " ", "S", "c", "h", "o", "o", "l">> }

MatchRoutines == {"_fuzzy_name_match", "_fuzzy_match_names", "_is_organization_match"}

ApplyRoutine(routine, a, b) ==
    CASE routine = "_fuzzy_name_match"  -> _fuzzy_name_match(a, b)
      [] routine = "_fuzzy_match_names" -> _fuzzy_match_names(a, b)
      [] OTHER                          -> _is_organization_match(a, b)

MatchIdle == match = [a |-> NoName, b |-> NoName, routine |-> NoValue]

\* A pair of names is chosen.
MatchInit == match \in [a : MatchNames, b : MatchNames, routine : {NoValue}]

\* The pair after one routine was applied to it in both orders.
Applied(routine) ==
    [match EXCEPT !.routine = routine]
        @@ [forward  |-> ApplyRoutine(routine, match.a, match.b),
            backward |-> ApplyRoutine(routine, match.b, match.a)]

CallFuzzyNameMatch ==
    /\ match.routine = NoValue
    /\ match' = Applied("_fuzzy_name_match")
    /\ UNCHANGED <<aggVars, chVars, runVars, vcVars, gatherVars, webVars, bindVars, queueVars>>

CallFuzzyMatchNames ==
    /\ match.routine = NoValue
    /\ match' = Applied("_fuzzy_match_names")
    /\ UNCHANGED <<aggVars, chVars, runVars, vcVars, gatherVars, webVars, bindVars, queueVars>>

CallIsOrganizationMatch ==
    /\ match.routine = NoValue
    /\ match' = Applied("_is_organization_match")
    /\ UNCHANGED <<aggVars, chVars, runVars, vcVars, gatherVars, webVars, bindVars, queueVars>>

NextMatch ==
    \/ CallFuzzyNameMatch
    \/ CallFuzzyMatchNames
    \/ CallIsOrganizationMatch

(***************************************************************************)
(* Verifiable credentials                                                  *)
(***************************************************************************)
\* dict.get(key): None when the key is absent.
Get(d, key) == IF key \in DOMAIN d THEN d[key] ELSE NoValue

\* uuid.uuid4() of the n-th onboarding, and len(providers_db) + 1 as text.
NewVerificationId(n) ==
    CASE n = 1 -> "v1" [] n = 2 -> "v2" [] n = 3 -> "v3" [] OTHER -> "v4"

NewId(n) ==
    CASE n = 1 -> "1" [] n = 2 -> "2" [] n = 3 -> "3" [] n = 4 -> "4" [] OTHER -> "5"

\* str(subject_id).startswith("urn:uuid:")
StartsWithUrn(id) == id \in {"urn:uuid:v1", "urn:uuid:v2", "urn:uuid:v3", "urn:uuid:v4"}

\* f"urn:uuid:{subject_id}" unless the identifier has the prefix already.
Urn(id) ==
    IF StartsWithUrn(id) THEN id
    ELSE CASE id = "v1" -> "urn:uuid:v1"
           [] id = "v2" -> "urn:uuid:v2"
           [] id = "v3" -> "urn:uuid:v3"
           [] id = "v4" -> "urn:uuid:v4"
           [] id = "1"  -> "urn:uuid:1"
           [] id = "2"  -> "urn:uuid:2"
           [] id = "3"  -> "urn:uuid:3"
           [] id = "4"  -> "urn:uuid:4"
           [] OTHER     -> "urn:uuid:5"

\* provider.get("verification_id") or provider.get("id"), prefixed if set.
SubjectId(provider) ==
    LET subject_id == IF Get(provider, "verification_id") # NoValue
                      THEN provider.verification_id
                      ELSE Get(provider, "id")
    IN  IF subject_id # NoValue THEN Urn(subject_id) ELSE NoValue

\* Issuing mutant: the provider's status is not looked at.
create_verifiable_credential_always(provider) == FALSE

\* create_verifiable_credential raises ValueError unless the status is approved.
create_verifiable_credential_raises(provider) == Get(provider, "status") # "approved"

\* create_verifiable_credential: the credential of an approved provider.
create_verifiable_credential(provider) ==
    [type              |-> {"VerifiableCredential", "EducationalProvider"},
     issuer            |-> "https://certify3.io/kyc",
     credentialSubject |-> [id |-> SubjectId(provider)],
     proof             |-> [verificationMethod |-> "https://certify3.io/keys/1"]]

TRUSTED_ISSUERS == {"https://certify3.io/kyc"}

\* Key mutant: the issuer's authorised key is another one.
AUTHORIZED_KEYS_rotated == [issuer \in TRUSTED_ISSUERS |-> {"https://certify3.io/keys/2"}]

AUTHORIZED_KEYS == [issuer \in TRUSTED_ISSUERS |-> {"https://certify3.io/keys/1"}]

TRUST_REGISTRY == [issuer \in TRUSTED_ISSUERS |-> {"EducationalProvider"}]

\* table.get(issuer, set())
SetFor(table, issuer) == IF issuer \in DOMAIN table THEN table[issuer] ELSE {}

\* verify_credential, with the module-level REVOKED_IDS as revoked_ids.  An
\* expirationDate, when present, is "future" or "past".
verify_credential(credential, expected_subject, revoked_ids) ==
    LET issuer            == Get(credential, "issuer")
        issuer_trusted    == issuer \in TRUSTED_ISSUERS
        proof             == IF "proof" \in DOMAIN credential
                             THEN credential.proof ELSE [none |-> NoValue]
        key_valid         == /\ issuer_trusted
                             /\ Get(proof, "verificationMethod") \in SetFor(AUTHORIZED_KEYS, issuer)
        types             == IF "type" \in DOMAIN credential THEN credential.type ELSE {}
        trust_registry_ok == /\ issuer_trusted
                             /\ "EducationalProvider" \in types
                             /\ "EducationalProvider" \in SetFor(TRUST_REGISTRY, issuer)
        expiration        == Get(credential, "expirationDate")
        not_expired       == IF expiration # NoValue THEN expiration = "future" ELSE TRUE
        subject           == IF "credentialSubject" \in DOMAIN credential
                             THEN Get(credential.credentialSubject, "id") ELSE NoValue
        cred_id           == IF Get(credential, "id") # NoValue THEN credential.id ELSE subject
        not_revoked       == cred_id \notin revoked_ids
        subject_match     == IF expected_subject # NoValue
                             THEN subject = expected_subject ELSE TRUE
    IN  [issuer_trusted    |-> issuer_trusted,
         key_valid         |-> key_valid,
         trust_registry_ok |-> trust_registry_ok,
         not_expired       |-> not_expired,
         not_revoked       |-> not_revoked,
         subject_match     |-> subject_match,
         is_valid          |-> /\ issuer_trusted /\ key_valid /\ trust_registry_ok
                               /\ not_expired /\ not_revoked /\ subject_match]

\* The sample provider added at start-up: approved, without verification_id.
SampleProvider ==
    [id |-> "1", verification_id |-> NoValue, status |-> "approved",
     revoked |-> NoValue, kyc_pending |-> FALSE, has_documents |-> FALSE]

\* The record onboard_provider and api_onboard_provider append as the n-th
\* provider.
NewProvider(n, pending) ==
    [id |-> NewId(n), verification_id |-> NewVerificationId(n - 1), status |-> "processing",
     revoked |-> NoValue, kyc_pending |-> pending, has_documents |-> FALSE]

\* overall_status of process_orchestrated_kyc, "error" from its except branch.
KycOutcomes == {"approved", "review_required", "rejected", "error"}

\* Verification ids a request can carry: the issued ones and an unknown one.
RequestIds == { NewVerificationId(n) : n \in 1..MaxProviders } \cup {"v0"}

\* next((p for p in providers_db if p.get("verification_id") == verification_id), None)
\* as an index, 0 for None.
FindProvider(verification_id) ==
    LET found == { i \in 1..Len(providers_db) :
                       providers_db[i].verification_id = verification_id }
    IN  IF found = {} THEN 0
        ELSE CHOOSE i \in found : \A j \in found : i <= j

\* What create_verifiable_credential reads of a provider record.
ProviderView(p) ==
    [id |-> Get(p, "id"), verification_id |-> Get(p, "verification_id"),
     status |-> Get(p, "status"), revoked |-> Get(p, "revoked")]

\* No provider record: every key is absent.
NoProvider == ProviderView([none |-> NoValue])

\* The last credential operation: nothing yet.
NoCredentialOp ==
    [op |-> NoValue, outcome |-> NoValue, provider |-> NoProvider,
     credential |-> NoValue, verified |-> FALSE,
     expected_subject |-> NoValue, result |-> NoValue]

CredentialOp(op, outcome, provider, credential) ==
    [NoCredentialOp EXCEPT !.op = op, !.outcome = outcome,
                           !.provider = provider, !.credential = credential]

\* processing_queue[verification_id] = status
SetQueue(queue, verification_id, status) ==
    [v \in DOMAIN queue \cup {verification_id} |->
        IF v = verification_id THEN status ELSE queue[v]]

\* processing_queue = {}
QueueIdle == processing_queue = <<>>

VcIdle ==
    /\ providers_db = <<SampleProvider>>
    /\ REVOKED_IDS = {}
    /\ vc = NoCredentialOp

\* The response of the two credential routes for a verification id.
CredentialRoute(op, verification_id) ==
    LET i == FindProvider(verification_id)
    IN  IF i = 0 THEN CredentialOp(op, "not_found", NoProvider, NoValue)
        ELSE IF providers_db[i].status # "approved"
             THEN CredentialOp(op, "not_approved", ProviderView(providers_db[i]), NoValue)
        ELSE IF create_verifiable_credential_raises(providers_db[i])
             THEN CredentialOp(op, "raised", ProviderView(providers_db[i]), NoValue)
        ELSE CredentialOp(op, "credential", ProviderView(providers_db[i]),
                          create_verifiable_credential(providers_db[i]))

\* POST /onboard: the provider is appended and its KYC run is scheduled.
OnboardProvider ==
    /\ Len(providers_db) <= MaxProviders
    /\ providers_db' = Append(providers_db, NewProvider(Len(providers_db) + 1, TRUE))
    /\ processing_queue' = SetQueue(processing_queue,
                                    NewVerificationId(Len(providers_db)), "started")
    /\ UNCHANGED <<REVOKED_IDS, vc, aggVars, chVars, runVars, matchVars, gatherVars, webVars, bindVars>>

\* process_orchestrated_kyc, run as the background task of an onboarding.
ProcessOrchestratedKyc ==
    /\ \E i \in 1..Len(providers_db), status \in KycOutcomes :
           /\ providers_db[i].kyc_pending
           /\ providers_db' = [providers_db EXCEPT ![i].status = status,
                                                   ![i].kyc_pending = FALSE]
           /\ processing_queue' =
                  SetQueue(processing_queue, providers_db[i].verification_id,
                           IF status = "error" THEN "error" ELSE "completed")
    /\ UNCHANGED <<REVOKED_IDS, vc, aggVars, chVars, runVars, matchVars, gatherVars, webVars, bindVars>>

\* POST /api/onboard: onboarding, the KYC run and, when approved, issuing, in
\* one request.
ApiOnboardProvider ==
    /\ Len(providers_db) <= MaxProviders
    /\ \E status \in KycOutcomes :
           LET p == [NewProvider(Len(providers_db) + 1, FALSE) EXCEPT !.status = status]
           IN  /\ providers_db' = Append(providers_db, p)
               /\ processing_queue' =
                      SetQueue(processing_queue, p.verification_id,
                               IF status = "error" THEN "error" ELSE "completed")
               /\ vc' = IF status # "approved"
                        THEN CredentialOp("api_onboard", "not_approved", ProviderView(p), NoValue)
                        ELSE IF create_verifiable_credential_raises(p)
                        THEN CredentialOp("api_onboard", "raised", ProviderView(p), NoValue)
                        ELSE CredentialOp("api_onboard", "credential", ProviderView(p),
                                          create_verifiable_credential(p))
    /\ UNCHANGED <<REVOKED_IDS, aggVars, chVars, runVars, matchVars, gatherVars, webVars, bindVars>>

\* POST /provider-status/{verification_id}/upload with uploaded files or none.
UploadDocuments ==
    /\ \E verification_id \in RequestIds, files \in BOOLEAN :
           LET i == FindProvider(verification_id)
           IN  IF i = 0 THEN UNCHANGED providers_db
               ELSE LET has == providers_db[i].has_documents \/ files
                    IN  providers_db' =
                            [providers_db EXCEPT
                                ![i].has_documents = has,
                                ![i].status = IF @ = "review_required" /\ has
                                              THEN "processing" ELSE @]
    /\ UNCHANGED <<REVOKED_IDS, vc, aggVars, chVars, runVars, matchVars, gatherVars, webVars, bindVars, queueVars>>

\* POST /revoke/{verification_id}
RevokeCredential ==
    /\ \E verification_id \in RequestIds :
           LET i == FindProvider(verification_id)
           IN  IF i = 0 THEN UNCHANGED <<providers_db, REVOKED_IDS>>
               ELSE /\ providers_db' = [providers_db EXCEPT ![i].revoked = "True"]
                    /\ REVOKED_IDS' = REVOKED_IDS \cup {SubjectId(providers_db[i])}
    /\ UNCHANGED <<vc, aggVars, chVars, runVars, matchVars, gatherVars, webVars, bindVars, queueVars>>

\* GET /credential/{verification_id}
VerifiableCredentialPage ==
    /\ \E verification_id \in RequestIds :
           vc' = CredentialRoute("verifiable_credential_page", verification_id)
    /\ UNCHANGED <<providers_db, REVOKED_IDS, aggVars, chVars, runVars, matchVars, gatherVars, webVars, bindVars, queueVars>>

\* GET /credential/{verification_id}/download
DownloadCredentialPdf ==
    /\ \E verification_id \in RequestIds :
           vc' = CredentialRoute("download_credential_pdf", verification_id)
    /\ UNCHANGED <<providers_db, REVOKED_IDS, aggVars, chVars, runVars, matchVars, gatherVars, webVars, bindVars, queueVars>>

\* The provider records create_verifiable_credential is called with directly.
ProviderRecords ==
    [id : {NoValue}, verification_id : {NoValue, "v1", "urn:uuid:v1"},
     status : {"approved", "rejected"}, revoked : {NoValue, "True"}]
        \cup { [NoProvider EXCEPT !.id = "1", !.status = "approved"], NoProvider }

\* create_verifiable_credential called with a provider record.
CallCreateVerifiableCredential ==
    /\ \E provider \in ProviderRecords :
           vc' = IF create_verifiable_credential_raises(provider)
                 THEN CredentialOp("create_verifiable_credential", "raised", provider, NoValue)
                 ELSE CredentialOp("create_verifiable_credential", "credential", provider,
                                   create_verifiable_credential(provider))
    /\ UNCHANGED <<providers_db, REVOKED_IDS, aggVars, chVars, runVars, matchVars, gatherVars, webVars, bindVars, queueVars>>

\* verify_credential applied to the credential issued last, with no expected
\* subject, with the credential's own subject, or with another one.
CallVerifyCredential ==
    /\ vc.outcome = "credential" /\ ~vc.verified
    /\ \E expected_subject \in {NoValue, vc.credential.credentialSubject.id, "urn:uuid:v0"} :
           vc' = [vc EXCEPT !.verified = TRUE,
                            !.expected_subject = expected_subject,
                            !.result = verify_credential(vc.credential, expected_subject,
                                                         REVOKED_IDS)]
    /\ UNCHANGED <<providers_db, REVOKED_IDS, aggVars, chVars, runVars, matchVars, gatherVars, webVars, bindVars, queueVars>>

NextVC ==
    \/ OnboardProvider
    \/ ProcessOrchestratedKyc
    \/ ApiOnboardProvider
    \/ UploadDocuments
    \/ RevokeCredential
    \/ VerifiableCredentialPage
    \/ DownloadCredentialPdf
    \/ CallCreateVerifiableCredential
    \/ CallVerifyCredential

(***************************************************************************)
(* SpecGather: one run at the level of the scheduler's scheduled               *)
(***************************************************************************)
\* A task of the cooperative scheduler: created by asyncio.gather (or, for a
\* qualification, entered by the loop of validate_qualifications), started
\* when the event loop first runs it, and settled when it returns or raises.
Task(name, phase, state) == [name |-> name, phase |-> phase, state |-> state]

Settled == {"returned", "raised"}

GatherIdle == scheduled = <<>>

\* The coroutines handed to the first asyncio.gather of
\* process_educational_kyc, with the result each one returns.
EduBasicChecks(o, r) ==
    << [name |-> "company_registration",
        result |-> verify_company_registration(o, r, "200")],
       [name |-> "ukprn_validation",
        result |-> validate_ukprn(o, r, "verified_active")],
       [name |-> "postcode_validation",
        result |-> validate_postcode(r, "200_valid")],
       [name |-> "sanctions_screening",
        result |-> check_sanctions(o, FALSE)] >>

\* The coroutines handed to the second asyncio.gather of
\* process_educational_kyc.
EduEducationalChecks(o, r) ==
    << [name |-> "ofqual_recognition",
        result |-> check_ofqual_recognition(o, r, FALSE)],
       [name |-> "ofsted_rating",
        result |-> assess_ofsted_rating("Good", FALSE)],
       [name |-> "esfa_funding_status",
        result |-> verify_esfa_status("Main provider", FALSE)] >>

\* basic_tasks of process_provider_kyc.
RealBasicTasks(o, r) ==
    (IF o.ch_key /\ r.company_number \notin {NoValue, EmptyString}
     THEN << [name |-> "companies_house_verification",
              result |-> verify_company(r.company_number, "200")] >>
     ELSE <<>>)
    \o (IF o.ukrlp_creds /\ r.ukprn # NoValue
        THEN << [name |-> "ukprn_validation", result |-> verify_ukprn(r.ukprn)] >>
        ELSE <<>>)
    \o << [name |-> "sanctions_screening", result |-> RealSanctionsResult(FALSE)] >>

\* educational_tasks of process_provider_kyc.
RealEducationalTasks ==
    << [name |-> "ofqual_recognition", result |-> verify_awarding_organisation(FALSE)] >>

\* The coroutines gathered in a phase.
PhaseChecks(o, r, phase) ==
    IF IsEdu(o)
    THEN (IF phase = 1 THEN EduBasicChecks(o, r) ELSE EduEducationalChecks(o, r))
    ELSE (IF phase = 1 THEN RealBasicTasks(o, r) ELSE RealEducationalTasks)

TasksOf(phase) == SelectSeq(scheduled, LAMBDA t : t.phase = phase)

\* Gather mutant: the caller resumes as soon as one task has settled.
AnySettled(phase) ==
    \E i \in 1..Len(scheduled) : scheduled[i].phase = phase /\ scheduled[i].state \in Settled

\* "await asyncio.gather(..., return_exceptions=True)" resumes its caller when
\* every task it was given has settled.
AllSettled(phase) ==
    \A i \in 1..Len(scheduled) : scheduled[i].phase = phase => scheduled[i].state \in Settled

\* The results of the gathered scheduled that returned, in task order.
GatheredResults(o, r, phase) ==
    LET checks == PhaseChecks(o, r, phase)
        raising == { scheduled[i].name : i \in { j \in 1..Len(scheduled) :
                         scheduled[j].phase = phase /\ scheduled[j].state = "raised" } }
    IN  Gather(checks, raising)

PhaseOf(p) == IF p \in {"phase1", "gather1"} THEN 1
              ELSE IF p \in {"phase2", "gather2"} THEN 2 ELSE 3

\* The requests the task-level run is explored with.
GatherRequests(o) ==
    IF IsEdu(o)
    THEN [company_number : {"12345678"}, ukprn : Ukprns, postcode : {"M1 1AA"},
          provider_type : {"FE College"},
          qualifications_offered : QualLists \cup {<<Titles[1], NonString>>},
          jcq_centre_number : {NoValue}]
    ELSE [company_number : {"12345678"}, ukprn : Ukprns, postcode : {"M1 1AA"},
          provider_type : {"FE College"},
          qualifications_offered : {<<>>}, jcq_centre_number : {NoValue}]

\* A request arrives at process_educational_kyc / process_provider_kyc.
GatherRunStart ==
    /\ pc = "idle"
    /\ \E o \in { x \in Orchestrators : x.variant # "real_jcq" } :
         /\ orch' = o
         /\ request' \in GatherRequests(o)
    /\ pc' = "phase1"
    /\ UNCHANGED <<results, trace, scheduled, aggVars, chVars, matchVars, vcVars, webVars, bindVars, queueVars>>

\* asyncio.gather is called with the coroutines of phase 1 or 2: a task is
\* created for each; none has run yet.
CreateTasks ==
    /\ pc \in {"phase1", "phase2"}
    /\ LET phase == PhaseOf(pc)
           checks == PhaseChecks(orch, request, phase)
       IN  /\ scheduled' = scheduled \o [i \in 1..Len(checks) |->
                                    Task(checks[i].name, phase, "created")]
           /\ trace' = [trace EXCEPT !.dispatched = @ \o TaskNames(checks)]
           /\ pc' = IF phase = 1 THEN "gather1" ELSE "gather2"
    /\ UNCHANGED <<orch, request, results, aggVars, chVars, matchVars, vcVars, webVars, bindVars, queueVars>>

\* The event loop runs a created task up to its first await; the ready queue
\* is first-in first-out, so scheduled start in creation order.
TaskStart ==
    /\ pc \in {"gather1", "gather2"}
    /\ \E i \in 1..Len(scheduled) :
         /\ scheduled[i].state = "created"
         /\ \A j \in 1..(i - 1) : scheduled[j].state # "created"
         /\ scheduled' = [scheduled EXCEPT ![i].state = "running"]
    /\ UNCHANGED <<runVars, aggVars, chVars, matchVars, vcVars, webVars, bindVars, queueVars>>

\* A running task returns its result; its siblings may still be running.
TaskReturn ==
    /\ pc \in {"gather1", "gather2"}
    /\ \E i \in 1..Len(scheduled) :
         /\ scheduled[i].state = "running"
         /\ scheduled' = [scheduled EXCEPT ![i].state = "returned"]
    /\ UNCHANGED <<runVars, aggVars, chVars, matchVars, vcVars, webVars, bindVars, queueVars>>

\* A running task raises past its own error boundary; gather keeps the
\* exception as that task's outcome.
TaskRaise ==
    /\ pc \in {"gather1", "gather2"}
    /\ \E i \in 1..Len(scheduled) :
         /\ scheduled[i].state = "running"
         /\ scheduled' = [scheduled EXCEPT ![i].state = "raised"]
         /\ trace' = [trace EXCEPT !.raised = @ \cup {scheduled[i].name}]
    /\ UNCHANGED <<pc, orch, request, results, aggVars, chVars, matchVars, vcVars, webVars, bindVars, queueVars>>

\* The gather has resumed its caller, which keeps the results that are not
\* exceptions and goes on to the next phase.
GatherDone ==
    /\ pc \in {"gather1", "gather2"}
    /\ AllSettled(PhaseOf(pc))
    /\ results' = results \o GatheredResults(orch, request, PhaseOf(pc))
    /\ pc' = IF pc = "gather1" THEN "phase2"
             ELSE IF IsEdu(orch) THEN "phase3" ELSE "phase4"
    /\ UNCHANGED <<orch, request, trace, scheduled, aggVars, chVars, matchVars, vcVars, webVars, bindVars, queueVars>>

\* The name under which the check of one qualification is traced; a title
\* that is not a string has no check_type.
QualificationTaskName(title) ==
    IF title = NonString THEN "qualification_validation"
    ELSE QualificationCheckType(title)

\* validate_qualifications: the loop enters the check of the next
\* qualification once the previous one has settled; with no qualifications
\* the phase is skipped.
QualificationStart ==
    /\ pc = "phase3" /\ IsEdu(orch)
    /\ LET quals == request.qualifications_offered
           done  == Len(TasksOf(3))
       IN  /\ AllSettled(3)
           /\ done < Len(quals)
           /\ scheduled' = Append(scheduled, Task(QualificationTaskName(quals[done + 1]), 3, "running"))
           /\ trace' = [trace EXCEPT
                  !.dispatched = Append(@, QualificationTaskName(quals[done + 1]))]
    /\ UNCHANGED <<pc, orch, request, results, aggVars, chVars, matchVars, vcVars, webVars, bindVars, queueVars>>

\* The check of one qualification ends: its result joins the list built by
\* validate_qualifications, or (a title that is not a string) the exception
\* raised again inside the except handler leaves validate_qualifications and
\* process_educational_kyc.
QualificationSettle ==
    /\ pc = "phase3" /\ IsEdu(orch)
    /\ LET n == Len(scheduled)
           k == Len(TasksOf(3))
       IN  /\ k > 0 /\ scheduled[n].state = "running"
           /\ IF request.qualifications_offered[k] = NonString
              THEN /\ scheduled' = [scheduled EXCEPT ![n].state = "raised"]
                   /\ trace' = [trace EXCEPT !.raised = @ \cup {"qualification_validation"}]
                   /\ pc' = "raised"
              ELSE /\ scheduled' = [scheduled EXCEPT ![n].state = "returned"]
                   /\ UNCHANGED <<trace, pc>>
    /\ UNCHANGED <<orch, request, results, aggVars, chVars, matchVars, vcVars, webVars, bindVars, queueVars>>

\* validate_qualifications returns and its list is added to the results
\* ("results.extend(qual_results)"); with no qualifications the phase is
\* skipped.
QualificationsDone ==
    /\ pc = "phase3" /\ IsEdu(orch)
    /\ LET quals == request.qualifications_offered
       IN  /\ Len(TasksOf(3)) = Len(quals)
           /\ AllSettled(3)
           /\ results' = IF quals = <<>> THEN results
                         ELSE results \o validate_qualifications(quals)
    /\ pc' = "phase4"
    /\ UNCHANGED <<orch, request, trace, scheduled, aggVars, chVars, matchVars, vcVars, webVars, bindVars, queueVars>>

\* The aggregate is computed over the accumulated results, appended, and the
\* list is returned.
GatherAggregate ==
    /\ pc = "phase4"
    /\ LET risk == IF IsEdu(orch)
                   THEN assess_educational_risk(results, map_provider_type(request.provider_type))
                   ELSE _calculate_overall_risk(results, request.provider_type)
           out  == Append(results, risk)
       IN  /\ results' = out
           /\ trace' = [trace EXCEPT !.agg_inputs = Append(@, results),
                                     !.returned = out]
    /\ pc' = "returned"
    /\ UNCHANGED <<orch, request, scheduled, aggVars, chVars, matchVars, vcVars, webVars, bindVars, queueVars>>

NextGather ==
    \/ GatherRunStart
    \/ CreateTasks
    \/ TaskStart
    \/ TaskReturn
    \/ TaskRaise
    \/ GatherDone
    \/ QualificationStart
    \/ QualificationSettle
    \/ QualificationsDone
    \/ GatherAggregate

(***************************************************************************)
(* SpecWeb: process_orchestrated_kyc of the web layer                      *)
(***************************************************************************)
\* "result.recommendations or []"
RecommendationsOf(r) ==
    IF "recommendations" \in DOMAIN r THEN r.recommendations ELSE <<>>

\* The recommendations assess_educational_risk attaches to its aggregate.
EduRecommendations(vr, provider_type) ==
    LET avg == EduAverage(vr)
        num == avg.num + (IF provider_type = "private_training" THEN 10 * avg.den ELSE 0)
    IN  (IF SelectTypes(vr, {"failed"}) # <<>>
         THEN <<"Address critical compliance issues before proceeding">> ELSE <<>>)
        \o (IF SelectTypes(vr, {"flagged"}) # <<>>
            THEN <<"Implement enhanced monitoring procedures">> ELSE <<>>)
        \o (IF num > 50 * avg.den
            THEN <<"Consider site visit and detailed review">> ELSE <<>>)

\* No second registry answer: the lookup was skipped or raised.
NoFullData == <<>>

\* "if companies_house_full_data": None and the empty dict are falsy.
IsTruthy(d) == DOMAIN d # {}

\* What get_enhanced_companies_house_result answers when main.py calls it.
FullDataAnswers(o) ==
    IF o.ch_key
    THEN {_analyze_company_data(NominalFacts),
          _analyze_company_data([NominalFacts EXCEPT !.company_status = "dissolved"]),
          NotFoundDict, ApiTimeoutDict, NoFullData}
    ELSE {NotConfiguredDict, NoFullData}

\* result_data of the conversion loop: the orchestrator's result, or for the
\* company_registration entry the second registry answer when there is one.
result_data(result, full) ==
    IF result.check_type = "company_registration" /\ IsTruthy(full)
    THEN [status     |-> full.status,
          risk_num   |-> full.risk_score,
          risk_den   |-> 1,
          recommendations |-> IF "recommendations" \in DOMAIN full
                              THEN full.recommendations
                              ELSE RecommendationsOf(result)]
    ELSE [status     |-> result.status,
          risk_num   |-> result.risk_num,
          risk_den   |-> result.risk_den,
          recommendations |-> RecommendationsOf(result)]

ResultData(vr, full) == [i \in 1..Len(vr) |-> result_data(vr[i], full)]

\* "kyc_results[result.check_type] = result_data": a later result with the
\* same check_type replaces the earlier entry.
PerCheckEntries(vr, full) ==
    [ct \in { vr[i].check_type : i \in 1..Len(vr) } |->
        LET last == CHOOSE i \in 1..Len(vr) :
                        /\ vr[i].check_type = ct
                        /\ \A j \in (i + 1)..Len(vr) : vr[j].check_type # ct
        IN  result_data(vr[last], full)]

\* "recommendations.extend(result_data['recommendations'])" over the loop.
RECURSIVE AllRecommendations(_)
AllRecommendations(ds) ==
    IF ds = <<>> THEN <<>>
    ELSE Head(ds).recommendations \o AllRecommendations(Tail(ds))

\* "overall_risk_score += result_data['risk_score']" over the loop, as a
\* fraction of hundredths.
RECURSIVE AddRisks(_)
AddRisks(ds) ==
    IF ds = <<>> THEN [num |-> 0, den |-> 1]
    ELSE LET rest == AddRisks(Tail(ds))
         IN  [num |-> Head(ds).risk_num * rest.den + rest.num * Head(ds).risk_den,
              den |-> Head(ds).risk_den * rest.den]

\* The check types appended to risk_factors by the loop.
RECURSIVE WebRiskFactors(_, _)
WebRiskFactors(vr, full) ==
    IF vr = <<>> THEN <<>>
    ELSE (IF result_data(Head(vr), full).status \in {"failed", "flagged"}
          THEN <<Head(vr).check_type>> ELSE <<>>)
         \o WebRiskFactors(Tail(vr), full)

\* next(r for r in verification_results
\*      if r.check_type == "educational_risk_assessment"), 0 for None.
RiskAssessmentOf(vr) ==
    LET found == { i \in 1..Len(vr) : vr[i].check_type = "educational_risk_assessment" }
    IN  IF found = {} THEN 0 ELSE CHOOSE i \in found : \A j \in found : i <= j

\* Mapping mutant: monitored approvals are stored as approved.
overall_status_lenient(orchestrator_status) ==
    IF orchestrator_status \in {"approved", "approved_with_monitoring"} THEN "approved"
    ELSE IF orchestrator_status = "enhanced_due_diligence_required" THEN "review_required"
    ELSE "rejected"

\* overall_status derived from the orchestrator's risk assessment.
overall_status(orchestrator_status) ==
    IF orchestrator_status = "approved" THEN "approved"
    ELSE IF orchestrator_status \in {"approved_with_monitoring",
                                     "enhanced_due_diligence_required"}
    THEN "review_required"
    ELSE "rejected"

\* risk_level_mapping.get(orchestrator_status, "medium")
risk_level_mapping(orchestrator_status) ==
    CASE orchestrator_status = "approved" -> "low"
      [] orchestrator_status = "approved_with_monitoring" -> "medium"
      [] orchestrator_status = "enhanced_due_diligence_required" -> "high"
      [] orchestrator_status = "rejected" -> "critical"
      [] OTHER -> "medium"

\* "recommendations[:5]"
FirstFive(recs) == SubSeq(recs, 1, IF Len(recs) < 5 THEN Len(recs) ELSE 5)

\* The fields process_orchestrated_kyc writes to the provider record after
\* the orchestrator has returned verification_results.
ProviderUpdate(vr, full) ==
    LET ds      == ResultData(vr, full)
        total   == Len(vr)
        sum     == AddRisks(ds)
        overall == IF total > 0 THEN [num |-> sum.num, den |-> sum.den * total]
                   ELSE [num |-> 50, den |-> 1]
        ra      == RiskAssessmentOf(vr)
        status  == IF ra # 0 THEN overall_status(vr[ra].status)
                   ELSE IF overall.num < 30 * overall.den THEN "approved"
                   ELSE IF overall.num < 60 * overall.den THEN "review_required"
                   ELSE "rejected"
        level   == IF ra # 0 THEN risk_level_mapping(vr[ra].status)
                   ELSE IF overall.num < 30 * overall.den THEN "low"
                   ELSE IF overall.num < 60 * overall.den THEN "medium"
                   ELSE "high"
        factors == WebRiskFactors(vr, full)
        recs    == AllRecommendations(ds)
        summary == [status |-> "completed",
                    risk_num |-> overall.num, risk_den |-> overall.den,
                    total_checks |-> total,
                    risk_factors |-> factors,
                    recommendations |-> FirstFive(recs)]
    IN  [status |-> status,
         risk_level |-> level,
         kyc_results |-> PerCheckEntries(vr, full) @@ ("verification_summary" :> summary),
         overall_risk_score |-> overall,
         verification_summary |->
             [total_checks |-> total,
              risk_factors_count |-> Len(factors),
              recommendations_count |-> Len(recs)]]

\* The provider record as onboard_provider appended it.
NewKycRecord ==
    [status |-> "processing", risk_level |-> "unknown", kyc_results |-> <<>>]

\* The fields written by the except clause of process_orchestrated_kyc.
ErrorUpdate == [NewKycRecord EXCEPT !.status = "error"]

WebIdle == companies_house_full_data = NoFullData /\ kyc_record = NewKycRecord

\* Two titles that agree on their first 20 characters.
LongTitleList ==
    <<"Level 3 Extended Diploma in Engineering", "Level 3 Extended Diploma in Business">>

\* provider_data as onboard_provider / api_onboard_provider hand it over.
WebRequests ==
    [company_number : {NoValue, "12345678"}, ukprn : {"10012345"}, postcode : {"M1 1AA"},
     provider_type : {"FE College", "Private Training"},
     qualifications_offered : QualLists \cup {LongTitleList},
     jcq_centre_number : {NoValue}]

\* The orchestrator main.py constructs: CombinedEducationalKYCOrchestrator().
WebOrchestrators == { o \in Orchestrators : o.variant = "combined" }

\* process_orchestrated_kyc starts: the orchestrator and the request are
\* constructed from provider_data.
BeginKyc ==
    /\ pc = "idle"
    /\ orch' \in WebOrchestrators
    /\ request' \in WebRequests
    /\ pc' = "fetch"
    /\ UNCHANGED <<results, trace, webVars, aggVars, chVars, matchVars, vcVars, gatherVars, bindVars, queueVars>>

\* The registry is asked a second time, outside the orchestrator, when the
\* provider gave a company number; an exception leaves None.
FetchCompaniesHouseFullData ==
    /\ pc = "fetch"
    /\ IF request.company_number # NoValue
       THEN companies_house_full_data' \in FullDataAnswers(orch)
       ELSE companies_house_full_data' = NoFullData
    /\ pc' = "orchestrate"
    /\ UNCHANGED <<orch, request, results, trace, kyc_record,
                   aggVars, chVars, matchVars, vcVars, gatherVars, bindVars, queueVars>>

\* "await orchestrator.process_educational_kyc(educational_request)": the
\* two gathered phases, the qualification checks of the mocked register and
\* the aggregate, or the exception of a qualification check.  `adverse` is a
\* provider the registers report badly on (UKPRN not verified, Ofsted
\* inadequate with safeguarding concerns, not on RoATP and restricted).
RunOrchestrator ==
    /\ pc = "orchestrate"
    /\ \E answer \in RunCompanyAnswers, postcode \in {"200_valid", "exception"},
          listed \in BOOLEAN, ofsted_ok \in BOOLEAN, adverse \in BOOLEAN,
          raising \in SUBSET {"company_registration", "esfa_funding_status"} :
         LET basic == <<
                 [name |-> "company_registration",
                  result |-> verify_company_registration(orch, request, answer)],
                 [name |-> "ukprn_validation",
                  result |-> validate_ukprn(orch, request,
                                            IF adverse THEN "not_verified"
                                            ELSE "verified_active")],
                 [name |-> "postcode_validation",
                  result |-> validate_postcode(request, postcode)],
                 [name |-> "sanctions_screening",
                  result |-> check_sanctions(orch, listed)] >>
             educational == <<
                 [name |-> "ofqual_recognition",
                  result |-> check_ofqual_recognition(orch, request, FALSE)],
                 [name |-> "ofsted_rating",
                  result |-> IF ~ofsted_ok THEN _create_error_result("ofsted_rating")
                             ELSE IF adverse THEN assess_ofsted_rating("Inadequate", TRUE)
                             ELSE assess_ofsted_rating("Good", FALSE)],
                 [name |-> "esfa_funding_status",
                  result |-> IF adverse THEN verify_esfa_status("unlisted", TRUE)
                             ELSE verify_esfa_status("Main provider", FALSE)] >>
             quals == request.qualifications_offered
             pt    == map_provider_type(request.provider_type)
         IN  IF validate_qualifications_raises(quals)
             THEN /\ pc' = "raised"
                  /\ trace' = [trace EXCEPT !.raised = @ \cup {"qualification_validation"}]
                  /\ UNCHANGED results
             ELSE LET vr == Gather(basic, raising) \o Gather(educational, raising)
                            \o validate_qualifications(quals)
                      out == Append(vr, WithRecommendations(
                                            assess_educational_risk(vr, pt),
                                            EduRecommendations(vr, pt)))
                  IN  /\ results' = out
                      /\ trace' = [trace EXCEPT !.raised = @ \cup raising,
                                                !.agg_inputs = Append(@, vr),
                                                !.returned = out]
                      /\ pc' = "returned"
    /\ UNCHANGED <<orch, request, webVars, aggVars, chVars, matchVars, vcVars, gatherVars, bindVars, queueVars>>

\* The conversion loop and provider.update(...) after the orchestrator has
\* returned.
StoreKycResults ==
    /\ pc = "returned"
    /\ kyc_record' = ProviderUpdate(results, companies_house_full_data)
    /\ pc' = "stored"
    /\ UNCHANGED <<orch, request, results, trace, companies_house_full_data,
                   aggVars, chVars, matchVars, vcVars, gatherVars, bindVars, queueVars>>

\* The except clause: the provider is marked as failed.
StoreKycError ==
    /\ pc = "raised"
    /\ kyc_record' = ErrorUpdate
    /\ pc' = "stored"
    /\ UNCHANGED <<orch, request, results, trace, companies_house_full_data,
                   aggVars, chVars, matchVars, vcVars, gatherVars, bindVars, queueVars>>

NextWeb ==
    \/ BeginKyc
    \/ FetchCompaniesHouseFullData
    \/ RunOrchestrator
    \/ StoreKycResults
    \/ StoreKycError

(***************************************************************************)
(* SpecBinding: which data source a check uses, call after call            *)
(***************************************************************************)
\* os.environ as the constructors read it: whether a Companies House API key
\* and UKRLP credentials are set.
Environments == [COMPANIES_HOUSE_API_KEY : BOOLEAN, UKRLP_CREDENTIALS : BOOLEAN]

\* The data source a result names, and whether it is the live one.
Source(data_source, live) == [data_source |-> data_source, live |-> live]

NoSources ==
    [ct \in {"company_registration", "ukprn_validation", "ofsted_rating",
             "sanctions_screening"} |-> {}]

BindIdle == environ \in Environments /\ data_sources = NoSources

\* Nothing configured and no call made.
BindFixed ==
    /\ environ = [COMPANIES_HOUSE_API_KEY |-> FALSE, UKRLP_CREDENTIALS |-> FALSE]
    /\ data_sources = NoSources

\* UKEducationalKYCOrchestrator() / CombinedEducationalKYCOrchestrator():
\* the real clients are created from the environment of that moment.
Construct(variant, env) ==
    [variant |-> variant,
     ch_key |-> variant = "combined" /\ env.COMPANIES_HOUSE_API_KEY,
     ukrlp_creds |-> variant = "combined" /\ env.UKRLP_CREDENTIALS]

\* verify_company_registration: the client bound at construction, or else
\* get_enhanced_companies_house_result, which constructs
\* EnhancedCompaniesHouseAPI() and so reads the key at the time of the call.
CompanyRegistrationSource(o, env) ==
    IF UsesRealCompaniesHouse(o) THEN Source("Companies House API", TRUE)
    ELSE Source("Companies House API", env.COMPANIES_HOUSE_API_KEY)

\* validate_ukprn: the client bound at construction, or else the register
\* page when it could be read and the simulated answer when it could not.
UkprnSource(o, r, page_read) ==
    IF UsesRealUkrlp(o, r) THEN Source("UKRLP SOAP API", TRUE)
    ELSE IF page_read THEN Source("UKRLP (Real Data)", TRUE)
    ELSE Source("UKRLP (Simulated)", FALSE)

\* assess_ofsted_rating: the report page when it could be read, the
\* simulated answer when it could not.
OfstedSource(page_read) ==
    IF page_read THEN Source("Ofsted (Real Data)", TRUE)
    ELSE Source("Ofsted (Simulated)", FALSE)

\* check_sanctions: SanctionsAPI for the combined orchestrator, the mocked
\* check for the UK orchestrator constructed without an MCP client.
SanctionsSource(o) ==
    IF o.variant = "combined" THEN Source("UK Treasury + OFAC", FALSE)
    ELSE Source("UK Treasury Sanctions", FALSE)

\* The request every call on the orchestrator is made with.
BindingRequest ==
    [NoRequest EXCEPT !.company_number = "12345678", !.ukprn = "10012345",
                      !.postcode = "M1 1AA", !.provider_type = "FE College"]

\* An orchestrator is constructed.
ConstructOrchestrator ==
    /\ pc = "idle"
    /\ \E variant \in {"uk", "combined"} : orch' = Construct(variant, environ)
    /\ request' = BindingRequest
    /\ pc' = "constructed"
    /\ UNCHANGED <<results, trace, bindVars, aggVars, chVars, matchVars, vcVars,
                   gatherVars, webVars, queueVars>>

\* The configuration changes while the orchestrator lives.
ChangeEnvironment ==
    /\ pc = "constructed"
    /\ environ' \in Environments \ {environ}
    /\ UNCHANGED <<runVars, data_sources, aggVars, chVars, matchVars, vcVars,
                   gatherVars, webVars, queueVars>>

BoundVerifyCompanyRegistration ==
    /\ pc = "constructed"
    /\ data_sources' = [data_sources EXCEPT !["company_registration"] =
                            @ \cup {CompanyRegistrationSource(orch, environ)}]
    /\ UNCHANGED <<runVars, environ, aggVars, chVars, matchVars, vcVars,
                   gatherVars, webVars, queueVars>>

BoundValidateUkprn ==
    /\ pc = "constructed"
    /\ \E page_read \in BOOLEAN :
           data_sources' = [data_sources EXCEPT !["ukprn_validation"] =
                                @ \cup {UkprnSource(orch, request, page_read)}]
    /\ UNCHANGED <<runVars, environ, aggVars, chVars, matchVars, vcVars,
                   gatherVars, webVars, queueVars>>

BoundAssessOfstedRating ==
    /\ pc = "constructed"
    /\ \E page_read \in BOOLEAN :
           data_sources' = [data_sources EXCEPT !["ofsted_rating"] =
                                @ \cup {OfstedSource(page_read)}]
    /\ UNCHANGED <<runVars, environ, aggVars, chVars, matchVars, vcVars,
                   gatherVars, webVars, queueVars>>

BoundCheckSanctions ==
    /\ pc = "constructed"
    /\ data_sources' = [data_sources EXCEPT !["sanctions_screening"] =
                            @ \cup {SanctionsSource(orch)}]
    /\ UNCHANGED <<runVars, environ, aggVars, chVars, matchVars, vcVars,
                   gatherVars, webVars, queueVars>>

NextBinding ==
    \/ ConstructOrchestrator
    \/ ChangeEnvironment
    \/ BoundVerifyCompanyRegistration
    \/ BoundValidateUkprn
    \/ BoundAssessOfstedRating
    \/ BoundCheckSanctions

(***************************************************************************)
(* SpecQueue: the background KYC task step by step, with uploads between   *)
(***************************************************************************)
\* The index of a provider whose task stands at the given queue status.
TaskAt(i, status) ==
    /\ providers_db[i].kyc_pending
    /\ providers_db[i].verification_id \in DOMAIN processing_queue
    /\ processing_queue[providers_db[i].verification_id] = status

\* provider.update({"status": "error", ...}) of the except branch.
QueueErrorUpdate(p) == [p EXCEPT !.status = "error", !.kyc_pending = FALSE]

\* provider.update({"status": overall_status, ...}) after the run.
QueueResultUpdate(p, overall) == [p EXCEPT !.status = overall, !.kyc_pending = FALSE]

\* process_orchestrated_kyc starts: the first statement of its try block.
KycBegin ==
    /\ \E i \in 1..Len(providers_db) :
           /\ TaskAt(i, "started")
           /\ processing_queue' = SetQueue(processing_queue,
                                           providers_db[i].verification_id, "in_progress")
    /\ UNCHANGED <<vcVars, aggVars, chVars, runVars, matchVars, gatherVars, webVars, bindVars>>

\* process_orchestrated_kyc stores the decision of a run that returned.
KycStoreResults ==
    /\ \E i \in 1..Len(providers_db),
          overall \in {"approved", "review_required", "rejected"} :
           /\ TaskAt(i, "in_progress")
           /\ providers_db' = [providers_db EXCEPT ![i] = QueueResultUpdate(@, overall)]
           /\ processing_queue' = SetQueue(processing_queue,
                                           providers_db[i].verification_id, "completed")
    /\ UNCHANGED <<REVOKED_IDS, vc, aggVars, chVars, runVars, matchVars, gatherVars, webVars, bindVars>>

\* process_orchestrated_kyc's except branch.
KycStoreError ==
    /\ \E i \in 1..Len(providers_db) :
           /\ TaskAt(i, "in_progress")
           /\ providers_db' = [providers_db EXCEPT ![i] = QueueErrorUpdate(@)]
           /\ processing_queue' = SetQueue(processing_queue,
                                           providers_db[i].verification_id, "error")
    /\ UNCHANGED <<REVOKED_IDS, vc, aggVars, chVars, runVars, matchVars, gatherVars, webVars, bindVars>>

\* POST /onboard, with the task it adds left to run step by step.
QueueOnboardProvider ==
    /\ Len(providers_db) <= MaxProviders
    /\ providers_db' = Append(providers_db, NewProvider(Len(providers_db) + 1, TRUE))
    /\ processing_queue' = SetQueue(processing_queue,
                                    NewVerificationId(Len(providers_db)), "started")
    /\ UNCHANGED <<REVOKED_IDS, vc, aggVars, chVars, runVars, matchVars, gatherVars, webVars, bindVars>>

\* POST /provider-status/{verification_id}/upload between the steps.
QueueUploadDocuments ==
    /\ \E verification_id \in RequestIds, files \in BOOLEAN :
           LET i == FindProvider(verification_id)
           IN  /\ i # 0
               /\ providers_db' =
                      [providers_db EXCEPT
                          ![i].has_documents = @ \/ files,
                          ![i].status = IF @ = "review_required"
                                           /\ (providers_db[i].has_documents \/ files)
                                        THEN "processing" ELSE @]
    /\ UNCHANGED <<REVOKED_IDS, vc, processing_queue, aggVars, chVars, runVars, matchVars, gatherVars, webVars, bindVars>>

KycTaskStep == KycBegin \/ KycStoreResults \/ KycStoreError

NextQueue ==
    \/ QueueOnboardProvider
    \/ KycBegin
    \/ KycStoreResults
    \/ KycStoreError
    \/ QueueUploadDocuments

(***************************************************************************)
(* Properties                                                              *)
(***************************************************************************)
Last(s) == s[Len(s)]

HasFailed(rs) == \E i \in 1..Len(rs) : rs[i].status = "failed"

\* C1: whenever any result handed to an aggregator has status 'failed', the
\* aggregate status is never 'approved' or 'approved_with_monitoring'
\* (assess_educational_risk, _calculate_overall_risk, _recalculate_risk_with_jcq).
HardOverrideLaw ==
    (AggReturned /\ HasFailed(aggIn))
        => aggOut.result.status \notin {"approved", "approved_with_monitoring"}

\* The real orchestrator's aggregator raised, so process_provider_kyc answered
\* from its except clause.
AggregationRaised ==
    /\ IsReal(orch)
    /\ trace.agg_inputs # <<>>
    /\ _calculate_overall_risk_raises(trace.agg_inputs[1], request.provider_type)

\* process_educational_kyc or process_provider_kyc has returned its list.
EntryPointReturned ==
    \/ pc = "returned" /\ orch.variant # "real_jcq"
    \/ pc = "jcq"

RiskOf(r) == IF "risk_score" \in DOMAIN r THEN r.risk_score ELSE r.risk_num

\* Scores and confidences are hundredths: the closed interval [0, 1] is 0..100.
InUnitRange(x) == 0 <= x /\ x <= 100

\* C3: every result, from an adapter or from an aggregator, has
\* 0 <= risk_score <= 1 and 0 <= confidence <= 1, the enhanced company
\* analysis and the +0.1 private-training adjustment included.
RangeInvariant ==
    /\ ch.pc = "done" =>
          /\ InUnitRange(RiskOf(ch.result))
          /\ ("confidence" \in DOMAIN ch.result => InUnitRange(ch.result.confidence))
    /\ AggReturned =>
          /\ 0 <= aggOut.result.risk_num
          /\ aggOut.result.risk_num <= 100 * aggOut.result.risk_den

ExponentialSleeps == ch.sleeps = [i \in 1..Len(ch.sleeps) |-> 2 ^ (i - 1)]

\* The lookup of _get_company_data is over: it has the data or has given up.
LoopEnded == ch.pc \in {"fetched", "done"}

\* At most max_retries attempts, a wait of 2^attempt seconds between
\* consecutive attempts only.
RetryBounds ==
    ch.api = "enhanced" =>
        /\ ch.requests <= max_retries
        /\ ExponentialSleeps
        /\ Len(ch.sleeps) <= ch.requests
        /\ (LoopEnded /\ ch.requests > 0) => Len(ch.sleeps) = ch.requests - 1

\* The loop ended with the company data: the analysis follows or has followed.
EndedWithData == ch.pc = "fetched" \/ (ch.pc = "done" /\ ch.followups = 4)

\* C7 (as stated): _get_company_data makes at most 3 attempts, waits
\* 2^attempt seconds between consecutive attempts, and a 200 response on any
\* attempt ends the loop with the data.
BoundedRetryAsStated ==
    /\ RetryBounds
    /\ (ch.api = "enhanced" /\ ch.last \in {"200", "200_undecodable"})
          => EndedWithData

\* A 200 whose body decodes ends the loop with the data; a 200 whose body does
\* not decode is handled like any other exception: retried, or given up with
\* the API error dict on the last attempt.
DecodedAnswerEndsLoop ==
    ch.api = "enhanced" =>
        /\ ch.last = "200" => EndedWithData
        /\ ch.last = "200_undecodable" =>
              \/ ch.pc = "attempt" /\ ch.attempt < max_retries
              \/ ch.pc = "done" /\ ch.requests = max_retries
                                /\ ch.result = ApiErrorDict

\* C7 (amended): _get_company_data makes at most 3 attempts, waits 2^attempt
\* seconds between consecutive attempts, always terminates, and a 200 response
\* whose body decodes as JSON ends the loop with the data on any attempt; a
\* 200 with an undecodable body counts as a failed attempt.
BoundedRetry ==
    /\ [](RetryBounds /\ DecodedAnswerEndsLoop)
    /\ (ch.pc = "attempt" ~> ch.pc = "done")

\* The lookup gave up after three attempts, the last one a 200 whose body did
\* not decode, having waited 1 and then 2 seconds.
BoundedRetryWitness ==
    /\ ch.pc = "done" /\ ch.api = "enhanced"
    /\ ch.requests = max_retries
    /\ ch.sleeps = <<1, 2>>
    /\ ch.last = "200_undecodable"
    /\ ch.result = ApiErrorDict

\* After a 404 or a 401 the lookup is over and nothing was requested since.
PermanentFailureEndsLookup ==
    /\ ch.last = "404" =>
          /\ ch.pc = "done" /\ ch.followups = 0
          /\ ch.result.status = "failed" /\ RiskOf(ch.result) >= 80
    /\ ch.last = "401" =>
          /\ ch.pc = "done" /\ ch.followups = 0
          /\ ch.result.status = "error"

\* C8: a 404 from the company registry gives status 'failed' with
\* risk_score >= 0.8 without a retry, a 401 ends the lookup with an error
\* result, and in both cases no further request is issued: no retry and no
\* officers, filing-history, charges or PSC request.
PermanentFailureNotRetried ==
    /\ []PermanentFailureEndsLookup
    /\ [][ch.last \in {"404", "401"} =>
             (ch'.requests = ch.requests /\ ch'.followups = ch.followups)]_vars

\* A lookup ended on a 404 that followed a transient failure.
PermanentFailureWitness ==
    /\ ch.pc = "done" /\ ch.api = "enhanced"
    /\ ch.last = "404" /\ ch.requests = 2
    /\ ch.followups = 0 /\ ch.result = NotFoundDict

\* The check types the three aggregators give their result.
AggregateTypes ==
    {"educational_risk_assessment", "risk_assessment", "enhanced_risk_assessment"}

IsAggregate(r) == r.check_type \in AggregateTypes

\* C5: no adapter failure aborts a run: whichever adapters raise, in phase 1,
\* 2 or 3, the entry point raises nothing to its caller, still aggregates, and
\* returns a list whose last element is the aggregate.
NoAdapterFailureAbortsRun ==
    /\ pc # "raised"
    /\ (EntryPointReturned /\ ~AggregationRaised) =>
          /\ trace.agg_inputs # <<>>
          /\ IsAggregate(Last(trace.returned))

\* C6: in every completed run the aggregator is invoked exactly once, after
\* the earlier phases, on the full accumulated list, and the returned list
\* holds exactly one aggregate result, as its final element; the same holds
\* for the JCQ-extended run (whose recalculation is invoked once on the list
\* that includes the JCQ result), whatever the base orchestrator returned.
AggregateOnceAndLast ==
    pc = "returned" =>
        LET out == trace.returned
            wrapped == orch.variant = "real_jcq" /\ request.jcq_centre_number # NoValue
        IN  /\ Len(trace.agg_inputs) = IF wrapped THEN 2 ELSE 1
            /\ Cardinality({i \in 1..Len(out) : IsAggregate(out[i])}) = 1
            /\ IsAggregate(Last(out))
            /\ Last(trace.agg_inputs) = SubSeq(out, 1, Len(out) - 1)

\* The results the run holds for the check named ct.
ResultsOf(ct) == { results[i] : i \in { j \in 1..Len(results) : results[j].check_type = ct } }

\* C9: an adapter whose required identifier is absent (company number, UKPRN,
\* postcode, JCQ centre number) returns status 'not_applicable' and performs
\* no network I/O.
MissingIdentifierPolicy ==
    /\ request.company_number \in {NoValue, EmptyString} =>
          /\ \A r \in ResultsOf("company_registration") \cup
                       ResultsOf("companies_house_verification") :
                 r.status = "not_applicable"
          /\ trace.netio \cap {"company_registration",
                               "companies_house_verification"} = {}
    /\ request.ukprn = NoValue =>
          /\ \A r \in ResultsOf("ukprn_validation") : r.status = "not_applicable"
          /\ "ukprn_validation" \notin trace.netio
    /\ request.postcode = NoValue =>
          /\ \A r \in ResultsOf("postcode_validation") : r.status = "not_applicable"
          /\ "postcode_validation" \notin trace.netio
    /\ request.jcq_centre_number = NoValue =>
          \A r \in ResultsOf("jcq_centre_verification") : r.status = "not_applicable"

\* C10: the status of every individual check result is one of 'passed',
\* 'failed', 'flagged', 'error', 'not_applicable', also when an API key is
\* not configured.
StatusVocabulary ==
    \A i \in 1..Len(results) :
        ~IsAggregate(results[i]) => results[i].status \in VerificationStatus

\* The check result an adapter call or a run has produced at position i.
ErrorResults == { results[i] : i \in { j \in 1..Len(results) : results[j].status = "error" } }

\* C11: every check result with status 'error' produced by an adapter
\* (internal exception, timeout, malformed payload, authentication failure,
\* unexpected HTTP status, retries exhausted) has risk_score within
\* [0.5, 0.7] and a non-empty recommendations list.
ErrorEnvelope ==
    pc = "adapter_returned" =>
        \A r \in ErrorResults :
            /\ 50 <= RiskOf(r) /\ RiskOf(r) <= 70
            /\ r.recommendations # <<>>

\* C12: for a request offering k >= 1 qualifications, phase 3 adds exactly k
\* check results whose check_type values are pairwise distinct, each derived
\* from its title, also for titles that share their first 20 characters and
\* for titles that repeat.
QualificationFanOut ==
    (pc = "adapter_returned" /\ trace.dispatched = <<"validate_qualifications">>) =>
        LET quals == request.qualifications_offered
        IN  /\ Len(results) = Len(quals)
            /\ \A i \in 1..Len(quals) :
                  results[i].check_type = QualificationCheckType(quals[i])
            /\ \A i, j \in 1..Len(results) :
                  i # j => results[i].check_type # results[j].check_type

\* C15: create_verifiable_credential returns a credential only for a provider
\* whose status is 'approved' and raises otherwise; through any sequence of
\* onboarding, KYC processing, document upload and revocation, the view and
\* download routes produce no credential for a provider that is not approved.
CredentialsOnlyForApproved ==
    /\ vc.op = "create_verifiable_credential" =>
           /\ vc.outcome = "credential" <=> vc.provider.status = "approved"
           /\ vc.outcome = "raised" <=> vc.provider.status # "approved"
    /\ ( /\ vc.op \in {"verifiable_credential_page", "download_credential_pdf", "api_onboard"}
         /\ vc.outcome = "credential" )
       => vc.provider.status = "approved"
    /\ vc.op \in {"verifiable_credential_page", "download_credential_pdf"} =>
           vc.outcome # "raised"

\* A route refused the credential of a provider that had been revoked and
\* whose documents were uploaded while it was under review.
CredentialsOnlyForApprovedWitness ==
    /\ vc.op = "download_credential_pdf"
    /\ vc.outcome = "not_approved"
    /\ vc.provider.revoked = "True"
    /\ \E i \in 1..Len(providers_db) :
           /\ providers_db[i].verification_id = vc.provider.verification_id
           /\ providers_db[i].has_documents
           /\ providers_db[i].status = "processing"
           /\ ~providers_db[i].kyc_pending

\* The four bands of the aggregate status, for a score num / den.
StatusBand(num, den) ==
    IF num < 25 * den THEN "approved"
    ELSE IF num < 50 * den THEN "approved_with_monitoring"
    ELSE IF num < 75 * den THEN "enhanced_due_diligence_required"
    ELSE "rejected"

\* C18: when no input result has status 'failed' (and there is an input), the
\* aggregate status is
\* determined by the final score alone: below 0.25 'approved', below 0.5
\* 'approved_with_monitoring', below 0.75 'enhanced_due_diligence_required',
\* otherwise 'rejected'.
ThresholdClassification ==
    (AggReturned /\ aggIn # <<>> /\ ~HasFailed(aggIn)) =>
        aggOut.result.status = StatusBand(aggOut.result.risk_num, aggOut.result.risk_den)

\* The weight tables the specification allows, in hundredths: sanctions
\* 0.25-0.30, provider register 0.15-0.20, qualification-body recognition
\* 0.15, unlisted types 0.05-0.10.
AllowedTables ==
    [sanctions_screening : 25..30, ukprn_validation : 15..20,
     ofqual_recognition : {15}, default : 5..10]

TableWeight(t, ct) == IF ct \in DOMAIN t THEN t[ct] ELSE t.default

RECURSIVE SumOfWeighted(_, _)
SumOfWeighted(rs, t) ==
    IF rs = <<>> THEN 0
    ELSE Head(rs).risk_num * TableWeight(t, Head(rs).check_type) + SumOfWeighted(Tail(rs), t)

RECURSIVE SumOfWeights(_, _)
SumOfWeights(rs, t) ==
    IF rs = <<>> THEN 0
    ELSE TableWeight(t, Head(rs).check_type) + SumOfWeights(Tail(rs), t)

\* The score the aggregator that answered holds before its provider-type
\* adjustment.
BaseScore ==
    CASE aggOut.by = "assess_educational_risk" -> EduAverage(aggIn)
      [] aggOut.by = "_calculate_overall_risk" ->
             [num |-> WeightedRisk(aggIn, "real"), den |-> TotalWeight(aggIn, "real")]
      [] OTHER ->
             [num |-> WeightedRisk(aggIn, "jcq"), den |-> TotalWeight(aggIn, "jcq")]

AdjustmentFactors == {90, 100, 110}

\* C20: the aggregator applies at most one provider-type adjustment, as a
\* single multiplication of the score, and the adjusted score is clamped to
\* [0, 1] before it is reported in risk_score and in details.
SingleClampedAdjustment ==
    (AggReturned /\ aggIn # <<>>) =>
        \E f \in AdjustmentFactors :
            LET r    == aggOut.result
                over == BaseScore.num * f > 100 * BaseScore.den * 100
                num  == IF over THEN 100 ELSE BaseScore.num * f
                den  == IF over THEN 1 ELSE BaseScore.den * 100
            IN  /\ r.risk_num * den = num * r.risk_den
                /\ "final_num" \in DOMAIN r => r.final_num * den = num * r.final_den

\* C16: for every provider whose record is marked revoked, by the revoke
\* operation or already on the record, the credential that
\* create_verifiable_credential produces for it is rejected by
\* verify_credential: not_revoked is false and is_valid is false.
RevokedCredentialsFail ==
    (vc.verified /\ vc.provider.revoked = "True") =>
        ~vc.result.not_revoked /\ ~vc.result.is_valid

\* C17: for every approved provider, the credential issued for it and
\* verified with expected_subject equal to its own subject id is valid, in
\* whatever order credentials were issued, verified and revoked before.
RoundTripAsStated ==
    ( /\ vc.verified
      /\ vc.provider.status = "approved"
      /\ vc.expected_subject = vc.credential.credentialSubject.id )
    => vc.result.is_valid

\* C17, amended: an approved provider's credential verified with its own
\* subject id is valid provided that subject id has not been revoked.
RoundTripUnlessRevoked ==
    ( /\ vc.verified
      /\ vc.provider.status = "approved"
      /\ vc.expected_subject = vc.credential.credentialSubject.id
      /\ vc.credential.credentialSubject.id \notin REVOKED_IDS )
    => vc.result.is_valid

\* A credential issued by a route verified as valid with its own subject id
\* after another provider's credential had been revoked.
RoundTripWitness ==
    /\ vc.verified
    /\ vc.op = "verifiable_credential_page"
    /\ vc.expected_subject = vc.credential.credentialSubject.id
    /\ vc.expected_subject # NoValue
    /\ REVOKED_IDS # {}
    /\ vc.credential.credentialSubject.id \notin REVOKED_IDS
    /\ vc.result.is_valid

\* C14: whenever the organisation name contains a sanctions-flagged keyword
\* as a case-insensitive substring, the sanctions result of every orchestrator
\* variant is 'flagged' with risk_score >= 0.8 and non-empty recommendations.
SanctionsKeywordFlagged ==
    ( /\ pc = "adapter_returned"
      /\ trace.dispatched = <<"check_sanctions">>
      /\ \E flag \in flagged_names : Contains(Lower(request.organisation_name), flag) )
    => /\ results[1].status = "flagged"
       /\ RiskOf(results[1]) >= 80
       /\ results[1].recommendations # <<>>

\* C13: for every pair of organisation names a and b, empty names included,
\* each fuzzy name-matching routine answers (a, b) as it answers (b, a).
NameMatchSymmetry ==
    match.routine # NoValue => match.forward = match.backward

\* A routine matched two names by substring, in both orders, although neither
\* the exact comparison nor the word overlap matches them.
NameMatchSymmetryWitness ==
    /\ match.routine = "_fuzzy_name_match"
    /\ match.a # match.b
    /\ match.forward = "True" /\ match.backward = "True"
    /\ NormalizeCompanyName(match.a) # NormalizeCompanyName(match.b)
    /\ ~WordOverlap(NormalizeCompanyName(match.a), NormalizeCompanyName(match.b))

\* Some task of phase "later" has been started while a task of phase
\* "earlier" has not settled.
StartedBeforeSettled(later, earlier) ==
    \E i, j \in 1..Len(scheduled) :
        /\ scheduled[i].phase = later /\ scheduled[i].state # "created"
        /\ scheduled[j].phase = earlier /\ scheduled[j].state \notin Settled

\* No check of a phase is started before every check of the phases before it
\* has returned or raised.
PhaseBarrierOrder ==
    /\ ~StartedBeforeSettled(2, 1)
    /\ ~StartedBeforeSettled(3, 2)
    /\ ~StartedBeforeSettled(3, 1)

\* When the run has ended, every check of every phase has been run to its
\* end and every check that returned has its result in the returned list.
SiblingsContribute ==
    pc \in {"returned", "raised"} =>
        /\ \A i \in 1..Len(scheduled) : scheduled[i].state \in Settled
        /\ IsEdu(orch) => Len(TasksOf(3)) = Len(request.qualifications_offered)
        /\ \A i \in 1..Len(scheduled) :
               scheduled[i].state = "returned" =>
                   \E k \in 1..Len(trace.returned) :
                       trace.returned[k].check_type = scheduled[i].name

\* C21: in every run no phase-2 check is started before every phase-1 check
\* has settled, and no per-qualification check is started before every
\* phase-2 check has settled; within a phase a check that raises or finishes
\* late does not prevent its siblings from completing and contributing their
\* results.
PhaseBarrier == PhaseBarrierOrder /\ SiblingsContribute

\* The check types an aggregate lists in its details, risk_factors first.
ListedTypes(r) ==
    (IF "risk_factors" \in DOMAIN r THEN r.risk_factors ELSE <<>>)
    \o (IF "critical_issues" \in DOMAIN r THEN r.critical_issues ELSE <<>>)

Occurrences(s, x) == Cardinality({ i \in 1..Len(s) : s[i] = x })

\* C22: the details of the aggregate list the check_type of every input whose
\* status is 'failed' or 'flagged', once per such input, and no other check
\* type; the counts reported in the details equal the numbers of such inputs.
RiskFactorCollection ==
    (aggOut.by # "none" /\ "result" \in DOMAIN aggOut) =>
        LET r == aggOut.result
            adverse == SelectTypes(aggIn, {"failed", "flagged"})
        IN  /\ \A i \in 1..Len(aggIn) :
                   Occurrences(ListedTypes(r), aggIn[i].check_type)
                       = Occurrences(adverse, aggIn[i].check_type)
            /\ \A i \in 1..Len(ListedTypes(r)) :
                   \E j \in 1..Len(aggIn) : aggIn[j].check_type = ListedTypes(r)[i]
            /\ "failed_checks" \in DOMAIN r =>
                   r.failed_checks = Len(SelectTypes(aggIn, {"failed"}))
            /\ "flagged_checks" \in DOMAIN r =>
                   r.flagged_checks = Len(SelectTypes(aggIn, {"flagged"}))

\* The run has been stored with its overall summary.
SummaryStored ==
    pc = "stored" /\ "verification_summary" \in DOMAIN kyc_record.kyc_results

InSeq(x, s) == \E i \in 1..Len(s) : s[i] = x

OneTimeAdapterBinding ==
    \A ct \in DOMAIN data_sources :
        \A s1, s2 \in data_sources[ct] : s1.live = s2.live

\* The tracked status of a verification id moves only forwards.
QueueMoves ==
    {<<"started", "in_progress">>, <<"in_progress", "completed">>,
     <<"in_progress", "error">>}

QueueProgression ==
    /\ DOMAIN processing_queue \subseteq DOMAIN processing_queue'
    /\ \A v \in DOMAIN processing_queue' :
           IF v \notin DOMAIN processing_queue
           THEN processing_queue'[v] = "started"
           ELSE \/ processing_queue'[v] = processing_queue[v]
                \/ <<processing_queue[v], processing_queue'[v]>> \in QueueMoves

\* The status of the provider record a tracked verification id belongs to.
TrackedStatus(v) == providers_db[FindProvider(v)].status

QueueErrorAgrees ==
    \A v \in DOMAIN processing_queue :
        processing_queue[v] = "error" => TrackedStatus(v) = "error"

QueueCompletedDecided ==
    \A v \in DOMAIN processing_queue :
        processing_queue[v] = "completed" =>
            TrackedStatus(v) \in {"approved", "review_required", "rejected"}

\* C25: the tracked status moves started -> in_progress ->
\* completed or error and never backwards, completed and error are final,
\* completed means the provider is approved, review_required or rejected, and
\* error means the provider's status is error.
ProcessingStatusProgression ==
    /\ [][QueueProgression]_vars
    /\ [](QueueErrorAgrees /\ QueueCompletedDecided)

\* The i-th provider record exists and has the given kind of status.
StatusIn(i, statuses) ==
    i <= Len(providers_db) /\ providers_db[i].status \in statuses

\* C26: when every started background task runs to its end, every provider
\* record whose status is processing eventually has a decided status
\* (approved, review_required, rejected or error), under any sequence of
\* onboarding, background KYC processing and document uploads.
EveryApplicationDecided ==
    \A i \in 1..(MaxProviders + 1) :
        StatusIn(i, {"processing"}) ~>
            StatusIn(i, {"approved", "review_required", "rejected", "error"})

\* The run of process_orchestrated_kyc returned results and they were stored.
RunStored == pc = "stored" /\ results # <<>>

\* The aggregate a returned run ends with.
StoredAggregate == results[Len(results)]

\* C27: when a run returns an aggregate result, the stored status is approved
\* only for the aggregate approved, review_required for
\* approved_with_monitoring and enhanced_due_diligence_required, rejected for
\* rejected, and the stored risk level is low, medium, high, critical
\* respectively; no other aggregate leaves the provider approved.
DecisionMapping ==
    RunStored =>
        LET aggregate == StoredAggregate.status
        IN  /\ StoredAggregate.check_type = "educational_risk_assessment"
            /\ <<aggregate, kyc_record.status, kyc_record.risk_level>> \in
                   {<<"approved", "approved", "low">>,
                    <<"approved_with_monitoring", "review_required", "medium">>,
                    <<"enhanced_due_diligence_required", "review_required", "high">>,
                    <<"rejected", "rejected", "critical">>}

\* A stored run whose aggregate asked for enhanced due diligence.
DecisionMappingWitness ==
    /\ RunStored
    /\ StoredAggregate.status = "enhanced_due_diligence_required"
    /\ kyc_record.status = "review_required"
    /\ kyc_record.risk_level = "high"

\* The stored per-check entries: kyc_results without its summary.
StoredEntries == DOMAIN kyc_record.kyc_results \ {"verification_summary"}

\* Every returned result is stored under its check_type with the status and
\* the risk score it was aggregated with.
StoredAsAggregated ==
    \A i \in 1..Len(results) :
        /\ results[i].check_type \in StoredEntries
        /\ LET entry == kyc_record.kyc_results[results[i].check_type]
           IN  /\ entry.status = results[i].status
               /\ entry.risk_num * results[i].risk_den
                      = results[i].risk_num * entry.risk_den

\* total_checks counts the stored per-check entries.
TotalChecksCountsEntries ==
    kyc_record.verification_summary.total_checks = Cardinality(StoredEntries)

\* C28: after a completed run every result the orchestrator returned is
\* stored under its check_type with the status and risk_score the aggregator
\* consumed, and the stored total_checks equals the number of stored per-check
\* entries; the company-registration entry and results sharing a check_type
\* included.
StoredResultsMatchAggregated ==
    RunStored => StoredAsAggregated /\ TotalChecksCountsEntries

\* process_provider_kyc_with_jcq takes the base list `base` to `out`: one JCQ
\* result directly before the aggregate, the aggregate recalculated over all
\* the elements before it.
JcqInserted(base, out) ==
    LET n == Len(base)
    IN  /\ Len(out) = n + 1
        /\ SubSeq(out, 1, n - 1) = SubSeq(base, 1, n - 1)
        /\ out[n].check_type = "jcq_centre_verification"
        /\ \A i \in 1..(n + 1) : out[i].check_type = "jcq_centre_verification" => i = n
        /\ out[n + 1] = _recalculate_risk_with_jcq(SubSeq(out, 1, n))

JcqExtensionStep ==
    (pc = "jcq" /\ pc' = "returned") =>
        IF request.jcq_centre_number = NoValue
        THEN results' = results
        ELSE JcqInserted(results, results')

\* C29: with a centre number, process_provider_kyc_with_jcq returns the base
\* results with exactly one JCQ result inserted immediately before the
\* aggregate and, as final element, an aggregate recalculated over every other
\* element of the returned list (the JCQ result included, the old aggregate
\* excluded); without a centre number the base list is returned unchanged.
JcqExtension == [][JcqExtensionStep]_vars

\* _calculate_overall_risk returned for a non-empty input list.
WeightedReturned ==
    aggOut.by = "_calculate_overall_risk" /\ ~aggOut.raised /\ aggIn # <<>>

\* The weighted mean of the inputs after the provider-type adjustment, as a
\* fraction of hundredths.
AdjustedScore ==
    LET factor == IF IsEstablishedType(aggType) THEN 9
                  ELSE IF IsPrivateType(aggType) THEN 11 ELSE 10
    IN  [num |-> WeightedRisk(aggIn, "real") * factor,
         den |-> TotalWeight(aggIn, "real") * 10]

HasFlagged(rs) == \E i \in 1..Len(rs) : rs[i].status = "flagged"

Init == RunInit /\ AggIdle /\ ch = ChIdleState /\ MatchIdle /\ VcIdle /\ GatherIdle /\ WebIdle /\ BindFixed /\ QueueIdle
Spec == Init /\ [][Next]_vars

InitAgg == AggInit /\ RunIdle /\ ch = ChIdleState /\ MatchIdle /\ VcIdle /\ GatherIdle /\ WebIdle /\ BindFixed /\ QueueIdle
SpecAgg == InitAgg /\ [][NextAgg]_vars

InitCH == ChInit /\ RunIdle /\ AggIdle /\ MatchIdle /\ VcIdle /\ GatherIdle /\ WebIdle /\ BindFixed /\ QueueIdle
SpecCH == InitCH /\ [][NextCH]_vars
\* Every request is answered or times out, so a started lookup keeps moving.
SpecCHFair == SpecCH /\ WF_vars(NextCH)

SpecAdapter == Init /\ [][NextAdapter]_vars

InitMatch == MatchInit /\ RunIdle /\ AggIdle /\ ch = ChIdleState /\ VcIdle /\ GatherIdle /\ WebIdle /\ BindFixed /\ QueueIdle
SpecMatch == InitMatch /\ [][NextMatch]_vars

InitVC == VcIdle /\ RunIdle /\ AggIdle /\ ch = ChIdleState /\ MatchIdle /\ GatherIdle /\ WebIdle /\ BindFixed /\ QueueIdle
SpecVC == InitVC /\ [][NextVC]_vars

SpecGather == Init /\ [][NextGather]_vars

SpecWeb == Init /\ [][NextWeb]_vars

InitBinding ==
    /\ BindIdle /\ RunInit /\ AggIdle /\ ch = ChIdleState /\ MatchIdle /\ VcIdle
    /\ GatherIdle /\ WebIdle /\ QueueIdle
SpecBinding == InitBinding /\ [][NextBinding]_vars

SpecQueue     == InitVC /\ [][NextQueue]_vars
\* Every started background task runs to its end.
SpecQueueFair == SpecQueue /\ WF_vars(KycTaskStep)

====
